---- MODULE Spec2Model ----
(***************************************************************************)
(* Model of the blog automation workflow (main.py, llm_handler.py,         *)
(* webflow_client.py, sheets_client.py, cms_providers/).                   *)
(*                                                                         *)
(* Strings of the program are sequences of one-character strings, so that  *)
(* slug derivation and the ledger line format are computed character by    *)
(* character. Remote services (text model, image model, CMS, spreadsheet,  *)
(* file system) are nondeterministic: every action draws the outcome of    *)
(* the remote call it makes from the set of outcomes the call can have.    *)
(***************************************************************************)
EXTENDS Integers, Sequences, FiniteSets, TLC

\* ------------------------------------------------------------------ bounds

\* Largest --num-posts value explored.
MaxPosts == 2
\* Longest title given to the slug derivation.
MaxTitleLen == 4
\* Most lines of the ledger file in the ledger round trip.
MaxLedgerLines == 3
\* Most rows of the worksheet in the upserts checked on their own.
MaxRows == 3

\* Number of reference documents in _CONTEXT_PDF_FILES (the repository
\* configures 14, llm_handler.py lines 78-94).
MaxDocs == 2

\* ------------------------------------------------------- program constants

\* llm_handler.py: MAX_RETRIES = 3
MAX_RETRIES == 3
\* main.py: max_retries_img = 3
max_retries_img == 3
\* config.WEBFLOW_PUBLISHED_URL_BASE, default "https://www.valuemate.ai/blog/"
WEBFLOW_PUBLISHED_URL_BASE ==
    << "h","t","t","p","s",":","/","/","w","w","w",".","v","a","l","u","e",
       "m","a","t","e",".","a","i","/","b","l","o","g","/" >>

\* The literal "untitled-post" of main.py line 275.
\* main.py line 383
max_slug_len == 90

UNTITLED_POST == << "u","n","t","i","t","l","e","d","-","p","o","s","t" >>

\* ------------------------------------------------------------ string helpers

LowerLetters ==
    { "a","b","c","d","e","f","g","h","i","j","k","l","m",
      "n","o","p","q","r","s","t","u","v","w","x","y","z" }

Digits == { "0","1","2","3","4","5","6","7","8","9" }

\* str.lower() on one character (the upper-case letters the model uses).
LowerChar(c) ==
    CASE c = "A" -> "a"
      [] c = "B" -> "b"
      [] c = "P" -> "p"
      [] c = "X" -> "x"
      [] OTHER -> c

\* str.lower()
Lower(s) == [k \in 1..Len(s) |-> LowerChar(s[k])]

\* str.replace(" ", "-")
ReplaceSpaces(s) == [k \in 1..Len(s) |-> IF s[k] = " " THEN "-" ELSE s[k]]

\* re.sub(r'[^a-z0-9-]', '', s): keep only the characters of [a-z0-9-].
IsSlugChar(c) == c \in LowerLetters \cup Digits \cup {"-"}
\* StripNonSlug without the re.sub.
StripNonSlug_Keep(s) == s

StripNonSlug(s) == SelectSeq(s, IsSlugChar)

\* str.strip('-'): drop leading and trailing hyphens.
RECURSIVE LStripHyphen(_)
LStripHyphen(s) ==
    IF s # << >> /\ Head(s) = "-" THEN LStripHyphen(Tail(s)) ELSE s

RECURSIVE RStripHyphen(_)
RStripHyphen(s) ==
    IF s # << >> /\ s[Len(s)] = "-"
    THEN RStripHyphen(SubSeq(s, 1, Len(s) - 1))
    ELSE s

StripHyphens(s) == RStripHyphen(LStripHyphen(s))

\* main.py lines 274-275: the slug of a title string.
Slugify(raw_title) ==
    LET stripped == StripHyphens(StripNonSlug(ReplaceSpaces(Lower(raw_title))))
    IN  IF stripped = << >> THEN UNTITLED_POST ELSE stripped

\* ------------------------------------------------------------- JSON values

\* A value found under a metadata key: absent key, JSON null, or a string.
Missing == [tag |-> "missing", s |-> << >>]
Null    == [tag |-> "null",    s |-> << >>]
Str(s)  == [tag |-> "str",     s |-> s]

\* JSON true and false, and a JSON number written with the digits s.
JsonTrue  == [tag |-> "true",  s |-> << >>]
JsonFalse == [tag |-> "false", s |-> << >>]
Num(s)    == [tag |-> "num",   s |-> s]

\* str(v) of such a value.
PyStr(v) ==
    CASE v.tag = "true"  -> << "T","r","u","e" >>
      [] v.tag = "false" -> << "F","a","l","s","e" >>
      [] v.tag = "null"  -> << "N","o","n","e" >>
      [] OTHER -> v.s

\* str.upper() on one character (the lower-case letters of the texts above).
UpperChar(c) ==
    CASE c = "r" -> "R"
      [] c = "u" -> "U"
      [] c = "e" -> "E"
      [] c = "a" -> "A"
      [] c = "l" -> "L"
      [] c = "s" -> "S"
      [] c = "o" -> "O"
      [] c = "n" -> "N"
      [] OTHER -> c

\* str.upper()
Upper(s) == [k \in 1..Len(s) |-> UpperChar(s[k])]

\* Python truthiness of such a value (dict.get(key) without default gives
\* None for an absent key).
Truthy(v) == v.tag = "str" /\ v.s # << >>

\* dict.get(key, default)
Get(v, default) == IF v.tag = "missing" THEN default ELSE v

\* ------------------------------------------------------------ ledger file

\* The ledger file is its raw content, a sequence of characters; "\n" ends a
\* line. A missing file and an empty file load alike (FileNotFoundError
\* gives the empty list).
Whitespace == { " ", "\n", "\t" }

\* str.strip()
RECURSIVE LStrip(_)
LStrip(s) == IF s # << >> /\ Head(s) \in Whitespace THEN LStrip(Tail(s)) ELSE s

RECURSIVE RStrip(_)
RStrip(s) ==
    IF s # << >> /\ s[Len(s)] \in Whitespace
    THEN RStrip(SubSeq(s, 1, Len(s) - 1))
    ELSE s

Strip(s) == RStrip(LStrip(s))

\* Iterating a text file: the lines of the content, split at "\n". A line
\* starts at the first character and after every "\n" that is not the last
\* character, and runs up to the next "\n" or the end of the content.
LineStarts(content) ==
    { k \in 1..Len(content) : k = 1 \/ content[k - 1] = "\n" }

LineEnd(content, start) ==
    LET ends == { k \in start..Len(content) : content[k] = "\n" }
    IN  IF ends = {} THEN Len(content)
        ELSE (CHOOSE k \in ends : \A m \in ends : k <= m) - 1

RECURSIVE LinesFrom(_, _)
LinesFrom(content, starts) ==
    IF starts = {} THEN << >>
    ELSE LET first == CHOOSE k \in starts : \A m \in starts : k <= m
         IN  << SubSeq(content, first, LineEnd(content, first)) >>
             \o LinesFrom(content, starts \ { first })

SplitLines(content) == LinesFrom(content, LineStarts(content))

\* Index of the first "::" of a line, 0 when there is none.
SeparatorIndexes(line) ==
    { k \in 1..(Len(line) - 1) : line[k] = ":" /\ line[k + 1] = ":" }

FirstSeparator(line) ==
    IF SeparatorIndexes(line) = {} THEN 0
    ELSE CHOOSE k \in SeparatorIndexes(line) :
             \A m \in SeparatorIndexes(line) : k <= m

\* main.py lines 60-68: one line of the file, as a sequence of zero or one
\* entries.
LoadLine(raw) ==
    LET line == Strip(raw)
        k    == FirstSeparator(line)
    IN  IF line = << >> THEN << >>
        ELSE IF k = 0 THEN << >>
        ELSE << [summary |-> Strip(SubSeq(line, 1, k - 1)),
                 url     |-> Strip(SubSeq(line, k + 2, Len(line)))] >>

RECURSIVE LoadLines(_)
LoadLines(lines) ==
    IF lines = << >> THEN << >>
    ELSE LoadLine(Head(lines)) \o LoadLines(Tail(lines))

\* main.py lines 52-74
load_summaries(content) == LoadLines(SplitLines(content))

\* LedgerLine without the line break at the end.
LedgerLine_NoNewline(summary, url) == summary \o << ":", ":" >> \o url

\* main.py line 83: the text written for one entry.
LedgerLine(summary, url) == summary \o << ":", ":" >> \o url \o << "\n" >>

\* main.py lines 76-86: the file content after save_summary(summary, url),
\* both strings; write_ok is whether opening and writing the file succeeded.
save_summary(content, summary, url, write_ok) ==
    IF summary = << >> \/ url = << >> THEN content
    ELSE IF write_ok THEN content \o LedgerLine(summary, url)
    ELSE content

\* --------------------------------------------------------- modelled inputs

\* Titles and excerpts the text model may answer with.
TitlePostAboutX == << "P","o","s","t"," ","A","b","o","u","t"," ","X" >>
TitlePunctuation == << "!","?" >>
ExcerptPostAboutX == << "P","o","s","t"," ","a","b","o","u","t"," ","X" >>
ImageDescription == << "a"," ","b" >>
\* A title whose slug is longer than max_slug_len.
LongTitle == [k \in 1..(max_slug_len + 2) |-> IF k = 3 THEN " " ELSE "b"]

\* What json.loads can return for the metadata response. kind is the JSON
\* type: "num" stands for a number, true, false or null (not iterable),
\* "list" for an array or a string (iterable, no .get); the three fields are
\* the values under the keys of a JSON object. The keys excerpt_featured,
\* reading_time and _draft are absent from these documents.
Doc(kind, nonempty, title, excerpt_page, image_description) ==
    [kind |-> kind, nonempty |-> nonempty, title |-> title,
     excerpt_page |-> excerpt_page, image_description |-> image_description,
     excerpt_featured |-> Missing, reading_time |-> Missing,
     _draft |-> Missing]

NoneDoc == Doc("none", FALSE, Missing, Missing, Missing)

JsonDocs ==
    { Doc("num",  TRUE,  Missing, Missing, Missing),
      Doc("list", FALSE, Missing, Missing, Missing),
      Doc("list", TRUE,  Missing, Missing, Missing),
      \* {} : an object without any key
      Doc("dict", FALSE, Missing, Missing, Missing),
      Doc("dict", TRUE, Str(TitlePostAboutX), Str(ExcerptPostAboutX),
          Str(ImageDescription)),
      Doc("dict", TRUE, Str(TitlePostAboutX), Str(ExcerptPostAboutX), Missing),
      Doc("dict", TRUE, Str(TitlePunctuation), Str(<< >>), Str(<< >>)),
      \* an object with other keys only
      Doc("dict", TRUE, Missing, Missing, Missing),
      Doc("dict", TRUE, Str(LongTitle), Missing, Str(ImageDescription)),
      Doc("dict", TRUE, Null, Str(ExcerptPostAboutX), Missing),
      Doc("dict", TRUE, Str(TitlePostAboutX), Null, Null) }

\* DocTruthy with the test of main.py line 268 left out.
DocTruthy_Always(doc) == TRUE

\* bool(metadata): None, {} and [] are falsy.
DocTruthy(doc) == doc.kind # "none" /\ doc.nonempty

\* Contents of the ledger file when the run starts: absent or empty, and a
\* file with one entry, one line without separator and one blank line.
InitialLedgers ==
    { << >>,
      << "o","l","d",":",":","u","/","o","l","d","\n",
         "j","u","n","k","\n", "\n" >> }

Providers == { "webflow", "framer-sheets" }

\* Answers typed at the confirmation prompt.
Answers == { "y", "Y", "n", "yes", "" }

\* str.lower() of an answer.
LowerAnswer(a) == IF a = "Y" THEN "y" ELSE a

\* -------------------------------------------------------------------- state

VARIABLES
    \* arguments of main() and what the provider import made available
    num_posts, generate_linkedin, auto_mode, provider, upload_asset_fn,
    \* control: code location, loop index (-1 before the first cycle)
    pc, i,
    \* run state
    posts_created_count, previous_summaries, summaries_file,
    \* locals of the cycle
    markdown_body, metadata, slug, blog_post_url,
    original_image_bytes, compressed_image_bytes, md5_hash,
    image_file_id, hosted_image_url, payload,
    confirm, proceed_to_create, new_item_id,
    \* loop counters of the retry loops
    retries, attempt,
    \* locals of upload_asset_from_bytes between its two requests
    upload,
    \* the rows of the "posts" worksheet below the header row
    sheet,
    \* observation (not program state): the current or last retry-wrapped
    \* call, the current or last cycle, the run
    call, cyc, run,
    \* llm_handler.py line 71: the module-level list _uploaded_files, and the
    \* observation of upload_context_files and of the calls that read the list
    uploaded_files, ctx,
    \* migrate_webflow_to_sheets.py: args.dry_run, all_items, the position of
    \* `for it in all_items` (the items before it are done), the objects of
    \* the storage bucket, and the list MISSING
    dry_run, all_items, item_index, bucket, MISSING

argVars   == << num_posts, generate_linkedin, auto_mode, provider, upload_asset_fn >>
runVars   == << posts_created_count, previous_summaries, summaries_file >>
textVars  == << markdown_body, metadata, slug, blog_post_url >>
imageVars == << original_image_bytes, compressed_image_bytes, md5_hash,
                image_file_id, hosted_image_url >>
pubVars   == << payload, confirm, proceed_to_create, new_item_id >>
loopVars  == << retries, attempt >>
ctxVars   == << uploaded_files, ctx >>
migVars   == << dry_run, all_items, item_index, bucket, MISSING >>
sideVars  == << ctxVars, migVars >>

vars == << argVars, pc, i, runVars, textVars, imageVars, pubVars, loopVars,
           upload, sheet, call, cyc, run, sideVars >>

\* Python None for the string-valued and bytes-valued locals.
None == "None"

\* Python truthiness of an identifier or a bytes value.
Set(x) == x # None /\ x # ""

\* config.py lines 15-18, 56, 59: the fixed identifiers of the payload.
DEFAULT_CATEGORY_ID == "67e4991ad69e1c8f370cb203"
DEFAULT_AUTHOR_ID == "6811134e2949fa13950f26e0"
DEFAULT_POST_STATUS_IS_DRAFT == TRUE
DEFAULT_FEATURED_STATUS == TRUE

\* payload = None (main.py line 419)
NoPayload == [isArchived |-> FALSE, isDraft |-> FALSE,
              fieldData |-> [k \in {} |-> Null]]

\* FilterNone keeping every field.
FilterNone_Keep(field_data) == field_data

\* main.py line 123: the fields whose value is not None.
FilterNone(field_data) ==
    [k \in { x \in DOMAIN field_data : field_data[x].tag # "null" } |->
        field_data[k]]

\* markdown.markdown(text) of a text of one paragraph.
Markdown(text) == IF text = "" THEN "" ELSE "<p>" \o text \o "</p>"

\* main.py lines 88-129. The body, one paragraph, is converted to HTML (it
\* has no line break to take out); a field whose value is None is
\* dropped from fieldData (line 123).
prepare_webflow_payload(slug_, body_content, metadata_, image_file_id_, hosted_image_url_) ==
    LET raw_title == Get(metadata_.title, Str(UNTITLED_POST))
        image ==
            IF Set(image_file_id_) /\ Set(hosted_image_url_)
            THEN [tag |-> "image",
                  s |-> << image_file_id_, hosted_image_url_ >>]
            ELSE Null
        field_data ==
            [k \in { "name", "slug", "post-body", "post-excerpt-post-page",
                     "post-excerpt-post-featured",
                     "post-reading-time-minutes",
                     "post-category", "post-author", "post-featured",
                     "post-main-image", "post-main-image-thumbnail" } |->
               CASE k = "name" -> raw_title
                 [] k = "slug" -> Str(slug_)
                 [] k = "post-body" ->
                        [tag |-> "html", s |-> Markdown(body_content)]
                 [] k = "post-excerpt-post-page" ->
                        Get(metadata_.excerpt_page, Str(<< >>))
                 [] k = "post-excerpt-post-featured" ->
                        Get(metadata_.excerpt_featured, Str(<< >>))
                 [] k = "post-reading-time-minutes" ->
                        Get(metadata_.reading_time, Num(<< "0" >>))
                 [] k = "post-category" ->
                        [tag |-> "id", s |-> DEFAULT_CATEGORY_ID]
                 [] k = "post-author" ->
                        [tag |-> "id", s |-> DEFAULT_AUTHOR_ID]
                 [] k = "post-featured" ->
                        [tag |-> "bool", s |-> DEFAULT_FEATURED_STATUS]
                 [] OTHER -> image]
    IN  [isArchived |-> FALSE,
         isDraft |-> DEFAULT_POST_STATUS_IS_DRAFT,
         fieldData |-> FilterNone(field_data)]

\* main.py lines 412-419
AssemblePayload(slug_, body_content, metadata_, image_file_id_, hosted_image_url_) ==
    IF provider = "webflow"
    THEN prepare_webflow_payload(slug_, body_content, metadata_,
                                 image_file_id_, hosted_image_url_)
    ELSE NoPayload

\* upload_asset_from_bytes is not running and has not just returned. The
\* fields are its locals after the registration (the success_action_status
\* field, the asset id, the hosted URL) and, once it has returned, the
\* answer to the transfer: sent tells that the upload location answered,
\* status is the HTTP status of the answer. file_hash is the fileHash of the
\* accepted registration request, file_bytes the file part of the transfer
\* request.
NoUpload == [expected |-> None, asset_id |-> None, hosted_url |-> None,
             sent |-> FALSE, status |-> 0, file_hash |-> None,
             file_bytes |-> None]

\* A retry-wrapped call that has not made an attempt yet.
NewCall(fn) == [fn |-> fn, calls |-> 0, sleeps |-> 0, hist |-> << >>,
                result |-> "running"]

\* No retry-wrapped call is running or has just ended. The observation of a
\* call is kept until the step after the call ended.
NoCall == NewCall("none")

\* Observation of one cycle: how it ended and what it did; answer is what the
\* publish target met on the publish call ("none" before the call); stages
\* lists the steps of the loop body the cycle has gone through, in the order
\* it left them; filename is the file name made for the image and
\* draft_url the address given to the social-draft call (empty: none);
\* draft is how the social-draft step ended ("none": not ended or not run).
NewCycle ==
    [outcome |-> "running", publish_calls |-> 0, item_posts |-> 0,
     image_calls |-> 0, file_appends |-> 0, list_appends |-> 0,
     draft_calls |-> 0, counted |-> 0, confirmed |-> FALSE,
     write_failed |-> FALSE, handed |-> << >>, answer |-> "none",
     upserts |-> 0, stages |-> << >>, filename |-> << >>,
     draft_url |-> << >>, draft |-> "none"]

\* Observation of the run at its start, the ledger file being `file`: the
\* content of the file at the start, the loads of the file, the entries of
\* the cycles published with a non-empty excerpt, and counts.
NewRun(file) ==
    [initial_file |-> file, loads |-> 0, published |-> << >>,
     loaded |-> 0, cooldowns |-> 0, reported |-> FALSE,
     publish_ok |-> 0, publish_ok_with_excerpt |-> 0,
     publish_calls |-> 0, write_failures |-> 0]

\* Observation of the reference documents: what happened to each document
\* of the last upload_context_files (empty: not called), the documents its
\* loop went through, what it returned, and the number of body-generation
\* calls made since with the handles attached to the last of them.
NewContext ==
    [outcomes |-> << >>, tried |-> << >>, returned |-> FALSE,
     body_calls |-> 0, attached |-> << >>]

\* SummariesForCycle reading the ledger file again.
SummariesForCycle_Reload(previous_summaries_, summaries_file_) ==
    load_summaries(summaries_file_)

\* main.py lines 240-244: the list handed to generate_html_body.
SummariesForCycle(previous_summaries_, summaries_file_) ==
    previous_summaries_

\* The migration script is not running.
MigrationAtRest ==
    /\ dry_run = FALSE
    /\ all_items = << >>
    /\ item_index = 1
    /\ bucket = << >>
    /\ MISSING = << >>

Init ==
    /\ num_posts \in 1..MaxPosts
    /\ generate_linkedin \in BOOLEAN
    /\ auto_mode \in BOOLEAN
    /\ provider \in Providers
    \* main.py lines 139-149: None for framer-sheets, and for webflow when
    \* the import of upload_asset_from_bytes fails
    /\ upload_asset_fn \in (IF provider = "webflow" THEN BOOLEAN ELSE {FALSE})
    /\ pc = "start"
    /\ i = -1
    /\ posts_created_count = 0
    /\ previous_summaries = << >>
    /\ summaries_file \in InitialLedgers
    /\ markdown_body = None
    /\ metadata = NoneDoc
    /\ slug = << >>
    /\ blog_post_url = << >>
    /\ original_image_bytes = None
    /\ compressed_image_bytes = None
    /\ md5_hash = None
    /\ image_file_id = None
    /\ hosted_image_url = None
    /\ payload = NoPayload
    /\ confirm = None
    /\ proceed_to_create = FALSE
    /\ new_item_id = Null
    /\ retries = 0
    /\ attempt = 0
    /\ upload = NoUpload
    /\ sheet = << >>
    /\ call = NoCall
    /\ cyc = [NewCycle EXCEPT !.outcome = "none"]
    /\ run = NewRun(summaries_file)
    /\ uploaded_files = << >>
    /\ ctx = NewContext
    /\ MigrationAtRest

\* main.py lines 152-165: one-time setup. configure_genai() fails when the
\* API key is missing; the result of upload_context_files() is only logged.
\* The list upload_context_files() stores is read by generate_html_body
\* alone, to build its request; it is followed in ContextSpec.
Setup ==
    /\ pc = "start"
    /\ \E configured \in BOOLEAN :
          IF ~configured
          THEN /\ pc' = "config_failed"
               /\ UNCHANGED << previous_summaries, run >>
          ELSE /\ pc' = "loop"
               /\ previous_summaries' = load_summaries(summaries_file)
               /\ run' = [run EXCEPT
                             !.loads = @ + 1,
                             !.loaded = Len(load_summaries(summaries_file))]
    /\ posts_created_count' = 0
    /\ call' = NoCall
    /\ UNCHANGED << sideVars, argVars, i, summaries_file, textVars, imageVars, pubVars,
                    loopVars, upload, sheet, cyc >>

\* The locals of a cycle are dead at the loop header: the cycle assigns each
\* of them before it reads it (main.py lines 240, 264, 274, 276, 283-285,
\* 300, 416-419, 423, 447).
ClearLocals ==
    /\ markdown_body' = None
    /\ metadata' = NoneDoc
    /\ slug' = << >>
    /\ blog_post_url' = << >>
    /\ original_image_bytes' = None
    /\ compressed_image_bytes' = None
    /\ md5_hash' = None
    /\ image_file_id' = None
    /\ hosted_image_url' = None
    /\ payload' = NoPayload
    /\ confirm' = None
    /\ proceed_to_create' = FALSE
    /\ new_item_id' = Null
    /\ attempt' = 0

\* main.py line 166 (for i in range(num_posts)) and line 515 (the report
\* after the loop).
LoopHeader ==
    /\ pc = "loop"
    /\ IF i + 1 < num_posts
       THEN /\ i' = i + 1
            /\ pc' = "generate_body"
            /\ retries' = 0
            /\ cyc' = [NewCycle EXCEPT
                           !.handed = SummariesForCycle(previous_summaries,
                                                        summaries_file)]
            /\ run' = run
            /\ ClearLocals
       ELSE /\ pc' = "done"
            /\ run' = [run EXCEPT !.reported = TRUE]
            /\ UNCHANGED << i, retries, cyc, textVars, imageVars, pubVars,
                            attempt >>
    /\ call' = NoCall
    /\ UNCHANGED << sideVars, argVars, runVars, upload, sheet >>

\* ---------------------------------------------------------- retry executor

\* RetryStep with the exhaustion test off by one (retries > MAX_RETRIES).
RetryStep_ExhaustLate(retries_, remote) ==
    IF ~(retries_ < MAX_RETRIES)
    THEN [called |-> FALSE, retries |-> retries_, end |-> "return_none",
          slept |-> FALSE]
    ELSE CASE remote = "response" ->
                [called |-> TRUE, retries |-> retries_, end |-> "break",
                 slept |-> FALSE]
           [] remote = "transient" ->
                IF retries_ + 1 > MAX_RETRIES
                THEN [called |-> TRUE, retries |-> retries_ + 1,
                      end |-> "return_none", slept |-> FALSE]
                ELSE [called |-> TRUE, retries |-> retries_ + 1,
                      end |-> "loop", slept |-> TRUE]
           [] OTHER ->
                [called |-> TRUE, retries |-> retries_, end |-> "return_none",
                 slept |-> FALSE]

\* RetryStep with every exception handled as a transient one.
RetryStep_RetryFatal(retries_, remote) ==
    IF ~(retries_ < MAX_RETRIES)
    THEN [called |-> FALSE, retries |-> retries_, end |-> "return_none",
          slept |-> FALSE]
    ELSE CASE remote = "response" ->
                [called |-> TRUE, retries |-> retries_, end |-> "break",
                 slept |-> FALSE]
           [] OTHER ->
                IF retries_ + 1 >= MAX_RETRIES
                THEN [called |-> TRUE, retries |-> retries_ + 1,
                      end |-> "return_none", slept |-> FALSE]
                ELSE [called |-> TRUE, retries |-> retries_ + 1,
                      end |-> "loop", slept |-> TRUE]

\* RetryStep taking a response as one more failed attempt.
RetryStep_RetryResponse(retries_, remote) ==
    IF ~(retries_ < MAX_RETRIES)
    THEN [called |-> FALSE, retries |-> retries_, end |-> "return_none",
          slept |-> FALSE]
    ELSE IF remote \in { "response", "transient" }
    THEN IF retries_ + 1 >= MAX_RETRIES
         THEN [called |-> TRUE, retries |-> retries_ + 1,
               end |-> "return_none", slept |-> FALSE]
         ELSE [called |-> TRUE, retries |-> retries_ + 1,
               end |-> "loop", slept |-> TRUE]
    ELSE [called |-> TRUE, retries |-> retries_, end |-> "return_none",
          slept |-> FALSE]

\* llm_handler.py lines 241-296 (the same loop at lines 363-404 and
\* 493-524): one pass through `while retries < MAX_RETRIES` with the remote
\* call ending as `remote` says. called: the remote call was made; end: the
\* loop goes round again ("loop"), leaves with a response ("break"), or the
\* function returns None ("return_none", also when the loop ends without a
\* response, lines 299-301); slept: time.sleep(RETRY_DELAY_SECONDS) ran.
RetryStep(retries_, remote) ==
    IF ~(retries_ < MAX_RETRIES)
    THEN [called |-> FALSE, retries |-> retries_, end |-> "return_none",
          slept |-> FALSE]
    ELSE CASE remote = "response" ->
                [called |-> TRUE, retries |-> retries_, end |-> "break",
                 slept |-> FALSE]
           [] remote = "transient" ->
                IF retries_ + 1 >= MAX_RETRIES
                THEN [called |-> TRUE, retries |-> retries_ + 1,
                      end |-> "return_none", slept |-> FALSE]
                ELSE [called |-> TRUE, retries |-> retries_ + 1,
                      end |-> "loop", slept |-> TRUE]
           [] OTHER ->
                [called |-> TRUE, retries |-> retries_, end |-> "return_none",
                 slept |-> FALSE]

\* LinkedinRefuses looking at the snippet only.
LinkedinRefuses_SnippetOnly(blog_content_snippet, new_blog_post_url) ==
    ~Set(blog_content_snippet)

\* llm_handler.py lines 353-355: generate_metadata_json returns None at once
\* on an empty body.
MetadataRefuses(html_content) == ~Set(html_content)

\* llm_handler.py lines 470-475: generate_linkedin_post returns None at
\* once on an empty snippet or an empty URL.
LinkedinRefuses(blog_content_snippet, new_blog_post_url) ==
    ~Set(blog_content_snippet) \/ new_blog_post_url = << >>

\* One pass of a generator whose entry check said `refuses`: the check
\* returns None before the loop, otherwise the loop runs.
GuardedStep(refuses, retries_, remote) ==
    IF refuses
    THEN [called |-> FALSE, retries |-> retries_, end |-> "return_none",
          slept |-> FALSE]
    ELSE RetryStep(retries_, remote)

\* The observation of a retry-wrapped call after one more pass.
Observe(fn, first, remote, st) ==
    LET base == IF first THEN NewCall(fn) ELSE call
    IN  [fn |-> fn,
         calls  |-> base.calls + (IF st.called THEN 1 ELSE 0),
         sleeps |-> base.sleeps + (IF st.slept THEN 1 ELSE 0),
         hist   |-> IF st.called THEN Append(base.hist, remote) ELSE base.hist,
         result |-> CASE st.end = "loop" -> "running"
                      [] st.end = "break" -> "response"
                      [] OTHER -> "none"]

\* ------------------------------------------------------------ the cycle

\* The observation c of a cycle after it went through the steps `names`.
Ran(c, names) == [c EXCEPT !.stages = @ \o names]

\* `continue` at main.py lines 247 and 270: back to the loop header.
Continue(outcome, names) ==
    /\ pc' = "loop"
    /\ cyc' = Ran([cyc EXCEPT !.outcome = outcome], names)

\* What the text model does on a body-generation call: a transient error
\* (ResourceExhausted, Aborted), any other exception, or a response, which
\* has no candidates, no parts, an empty text or a text.
BodyOutcomes ==
    { [remote |-> "transient", content |-> "-"],
      [remote |-> "fatal",     content |-> "-"],
      [remote |-> "response",  content |-> "no_candidates"],
      [remote |-> "response",  content |-> "no_parts"],
      [remote |-> "response",  content |-> "empty_text"],
      [remote |-> "response",  content |-> "text"] }

\* llm_handler.py lines 298-339: the body made of a response.
BodyOf(content) ==
    CASE content = "text" -> "BODY"
      [] content = "empty_text" -> ""
      [] OTHER -> None

\* main.py lines 238-260 with llm_handler.generate_html_body: one attempt
\* of the body call and, when the call ends, what main does with its result.
GenerateBody ==
    /\ pc = "generate_body"
    /\ \E o \in BodyOutcomes :
         LET st == RetryStep(retries, o.remote)
             body == IF st.end = "break" THEN BodyOf(o.content) ELSE None
         IN  /\ call' = Observe("body", retries = 0, o.remote, st)
             /\ IF st.end = "loop"
                THEN /\ retries' = st.retries
                     /\ UNCHANGED << pc, cyc, markdown_body >>
                ELSE /\ retries' = 0
                     /\ markdown_body' = body
                     /\ IF ~Set(body)
                        THEN Continue("body_failed", << "GENERATE_BODY" >>)
                        ELSE /\ pc' = "generate_metadata"
                             /\ cyc' = Ran(cyc, << "GENERATE_BODY",
                                                   "EXTRACT_INTERLINKS" >>)
    /\ UNCHANGED << sideVars, argVars, i, runVars, metadata, slug, blog_post_url,
                    imageVars, pubVars, attempt, upload, sheet, run >>

\* What the text model does on a metadata call: as for the body, and a
\* response carries no content, a text that is not JSON, or a JSON document.
MetadataOutcomes ==
    { [remote |-> "transient", content |-> "-", doc |-> NoneDoc],
      [remote |-> "fatal",     content |-> "-", doc |-> NoneDoc],
      [remote |-> "response",  content |-> "no_content", doc |-> NoneDoc],
      [remote |-> "response",  content |-> "bad_json", doc |-> NoneDoc] }
    \cup { [remote |-> "response", content |-> "json", doc |-> d] :
             d \in JsonDocs }

\* llm_handler.py lines 406-447: the metadata made of a response. A parsed
\* value that is not iterable makes `key in metadata_dict` raise, which the
\* last handler turns into None.
MetadataOf(o) ==
    IF o.content = "json" /\ o.doc.kind # "num" THEN o.doc ELSE NoneDoc

\* main.py lines 273-274 raise AttributeError when metadata has no .get
\* (a list or a string) or the title is not a string (null).
SlugRaises(metadata_) ==
    \/ metadata_.kind # "dict"
    \/ Get(metadata_.title, Str(UNTITLED_POST)).tag # "str"

\* main.py lines 288-297: whether the image model is called in this cycle.
\* The OpenAI client object of line 44 is always truthy.
WantsImage(metadata_) ==
    provider = "webflow" /\ Truthy(metadata_.image_description)

\* An uncaught exception leaves main(): the process ends with a traceback.
Crash(names) ==
    /\ pc' = "crashed"
    /\ cyc' = Ran([cyc EXCEPT !.outcome = "crashed"], names)

\* main.py lines 262-297 and 412-419 with llm_handler.generate_metadata_json:
\* one attempt of the metadata call and, when the call ends, the slug, the
\* URL and the choice between image generation and payload assembly.
GenerateMetadata ==
    /\ pc = "generate_metadata"
    /\ \E o \in MetadataOutcomes :
         LET st == GuardedStep(MetadataRefuses(markdown_body), retries,
                               o.remote)
             result == IF st.end = "break" THEN MetadataOf(o) ELSE NoneDoc
             title == Get(result.title, Str(UNTITLED_POST))
             new_slug == Slugify(title.s)
         IN  /\ call' = Observe("metadata", retries = 0, o.remote, st)
             /\ IF st.end = "loop"
                THEN /\ retries' = st.retries
                     /\ UNCHANGED << pc, cyc, metadata, slug, blog_post_url,
                                     payload >>
                ELSE /\ retries' = 0
                     /\ metadata' = result
                     /\ IF ~DocTruthy(result)
                        THEN /\ Continue("metadata_failed",
                                         << "GENERATE_METADATA" >>)
                             /\ UNCHANGED << slug, blog_post_url, payload >>
                        ELSE IF SlugRaises(result)
                        THEN /\ Crash(<< "GENERATE_METADATA",
                                         "COMPUTE_SLUG" >>)
                             /\ UNCHANGED << slug, blog_post_url, payload >>
                        ELSE /\ slug' = new_slug
                             /\ blog_post_url' =
                                    WEBFLOW_PUBLISHED_URL_BASE \o new_slug
                             /\ IF WantsImage(result)
                                THEN /\ pc' = "generate_image"
                                     /\ payload' = payload
                                     /\ cyc' = Ran(cyc, << "GENERATE_METADATA",
                                                           "COMPUTE_SLUG" >>)
                                ELSE /\ pc' = "confirm"
                                     /\ cyc' = Ran(cyc, << "GENERATE_METADATA",
                                                           "COMPUTE_SLUG",
                                                           "ASSEMBLE_PAYLOAD" >>)
                                     /\ payload' = AssemblePayload(
                                            new_slug, markdown_body, result,
                                            None, None)
    /\ UNCHANGED << sideVars, argVars, i, runVars, markdown_body, imageVars, confirm,
                    proceed_to_create, new_item_id, attempt, upload, sheet,
                    run >>

\* What the image model does on one call: a response with image data that
\* decodes to bytes ("image"), with data that decodes to no bytes at all
\* ("empty_image": b64decode drops characters outside the alphabet, so
\* "====" decodes to b""), with data that does not decode, without data;
\* RateLimitError; another APIError; any other exception.
ImageOutcomes ==
    { "image", "empty_image", "decode_error", "no_data", "rate_limit",
      "api_error", "error" }

\* ImageStep sleeping after a rate limit on the last attempt too.
ImageStep_SleepOnLast(attempt_, o) ==
    IF ~(attempt_ < max_retries_img)
    THEN [called |-> FALSE, end |-> "exit", bytes |-> None, slept |-> FALSE]
    ELSE CASE o = "image" ->
                [called |-> TRUE, end |-> "exit", bytes |-> "IMAGE",
                 slept |-> FALSE]
           [] o = "empty_image" ->
                [called |-> TRUE,
                 end |-> IF attempt_ + 1 < max_retries_img
                         THEN "loop" ELSE "exit",
                 bytes |-> "", slept |-> FALSE]
           [] o = "rate_limit" ->
                [called |-> TRUE,
                 end |-> IF attempt_ + 1 < max_retries_img
                         THEN "loop" ELSE "exit",
                 bytes |-> None, slept |-> TRUE]
           [] OTHER ->
                [called |-> TRUE, end |-> "exit", bytes |-> None,
                 slept |-> FALSE]

\* main.py lines 301-356: one pass through `for attempt in
\* range(max_retries_img)`. end: "loop" for another pass, "exit" when the
\* loop is left (break, or the range is used up); bytes: the value of
\* original_image_bytes after the pass.
ImageStep(attempt_, o) ==
    IF ~(attempt_ < max_retries_img)
    THEN [called |-> FALSE, end |-> "exit", bytes |-> None, slept |-> FALSE]
    ELSE CASE o = "image" ->
                [called |-> TRUE, end |-> "exit", bytes |-> "IMAGE",
                 slept |-> FALSE]
           [] o = "empty_image" ->
                \* line 338: `if original_image_bytes: break` does not break
                [called |-> TRUE,
                 end |-> IF attempt_ + 1 < max_retries_img
                         THEN "loop" ELSE "exit",
                 bytes |-> "", slept |-> FALSE]
           [] o = "rate_limit" ->
                IF attempt_ < max_retries_img - 1
                THEN [called |-> TRUE, end |-> "loop", bytes |-> None,
                      slept |-> TRUE]
                ELSE [called |-> TRUE, end |-> "exit", bytes |-> None,
                      slept |-> FALSE]
           [] OTHER ->
                [called |-> TRUE, end |-> "exit", bytes |-> None,
                 slept |-> FALSE]

\* The observation of the image loop after one more pass.
ObserveImage(first, o, st) ==
    LET base == IF first THEN NewCall("image") ELSE call
    IN  [fn |-> "image",
         calls  |-> base.calls + (IF st.called THEN 1 ELSE 0),
         sleeps |-> base.sleeps + (IF st.slept THEN 1 ELSE 0),
         hist   |-> IF st.called THEN Append(base.hist, o) ELSE base.hist,
         result |-> CASE st.end = "loop" -> "running"
                      [] Set(st.bytes) -> "response"
                      [] OTHER -> "none"]

\* HashedBytes taking the image as the image model gave it.
HashedBytes_Original(original, compressed) == original

\* main.py line 376: the bytes the hash is made of.
HashedBytes(original, compressed) == compressed

\* hashlib.md5(bytes).hexdigest()
Md5(bytes) == IF bytes = "PNG" THEN "md5-of-PNG" ELSE "md5-of-IMAGE"

\* ImageFilename without the truncation of the slug.
ImageFilename_Whole(slug_) ==
    slug_ \o << "-","m","a","i","n",".","p","n","g" >>

\* main.py lines 383-389: the file name of the image.
ImageFilename(slug_) ==
    LET image_slug == IF Len(slug_) > max_slug_len
                      THEN SubSeq(slug_, 1, max_slug_len) ELSE slug_
    IN  image_slug \o << "-","m","a","i","n",".","p","n","g" >>

\* main.py lines 281-410 after the metadata: one call of the image model
\* and, when the loop is left, compression and hashing of the image and the
\* choice between asset upload and payload assembly.
GenerateImage ==
    /\ pc = "generate_image"
    /\ \E o \in ImageOutcomes, compress_ok \in BOOLEAN, hash_ok \in BOOLEAN :
         LET st == ImageStep(attempt, o)
             compressed == IF compress_ok THEN "PNG" ELSE st.bytes
             hash == IF hash_ok THEN Md5(HashedBytes(st.bytes, compressed))
                     ELSE None
         IN  /\ call' = ObserveImage(attempt = 0, o, st)
             /\ cyc' = Ran([cyc EXCEPT
                               !.image_calls =
                                   @ + (IF st.called THEN 1 ELSE 0),
                               !.filename =
                                   IF st.end # "loop" /\ Set(st.bytes)
                                      /\ hash_ok
                                   THEN ImageFilename(slug) ELSE @],
                           IF st.end = "loop" THEN << >>
                           ELSE IF Set(st.bytes) /\ hash_ok /\ upload_asset_fn
                           THEN << "GENERATE_IMAGE" >>
                           ELSE << "GENERATE_IMAGE", "ASSEMBLE_PAYLOAD" >>)
             /\ original_image_bytes' = st.bytes
             /\ IF st.end = "loop"
                THEN /\ attempt' = attempt + 1
                     /\ compress_ok /\ hash_ok
                     /\ UNCHANGED << pc, compressed_image_bytes, md5_hash,
                                     payload >>
                ELSE /\ attempt' = 0
                     /\ IF ~Set(st.bytes)
                        THEN /\ compress_ok /\ hash_ok
                             /\ UNCHANGED << compressed_image_bytes,
                                             md5_hash >>
                        ELSE /\ compressed_image_bytes' = compressed
                             /\ md5_hash' = hash
                     /\ IF Set(st.bytes) /\ hash_ok /\ upload_asset_fn
                        THEN /\ pc' = "upload_register"
                             /\ payload' = payload
                        ELSE /\ pc' = "confirm"
                             /\ payload' = AssemblePayload(
                                    slug, markdown_body, metadata, None, None)
    /\ UNCHANGED << sideVars, argVars, i, runVars, textVars, image_file_id,
                    hosted_image_url, confirm, proceed_to_create, new_item_id,
                    retries, upload, sheet, run >>

\* What the CMS answers to the asset registration: the request fails (HTTP
\* error status, network error, body that is not a JSON object); or a JSON
\* object, whose uploadUrl and uploadDetails may be missing, whose
\* uploadDetails may be something else than an object, whose id and
\* hostedUrl may be missing, and whose success_action_status is absent
\* (None), a number in text ("201", "204", "0"), a text that is not a number
\* ("soon"), or JSON null ("null").
RegisterOutcomes ==
    { [kind |-> "failed", expected |-> None, asset_id |-> None,
       hosted_url |-> None],
      [kind |-> "no_upload_url", expected |-> None, asset_id |-> "ASSET",
       hosted_url |-> "HOSTED"],
      [kind |-> "details_not_object", expected |-> None, asset_id |-> "ASSET",
       hosted_url |-> "HOSTED"] }
    \cup
    { [kind |-> "registered", expected |-> e, asset_id |-> a,
       hosted_url |-> h] :
        e \in { None, "201", "204", "0", "soon", "null" },
        a \in { None, "ASSET" }, h \in { None, "HOSTED" } }

\* webflow_client.py lines 23-120: the configuration checks and the first
\* request of upload_asset_from_bytes. uploadDetails.items() at line 116 is
\* outside every try block.
UploadRegister ==
    /\ pc = "upload_register"
    /\ \E api_key_set \in BOOLEAN, o \in RegisterOutcomes :
         IF ~api_key_set
         THEN /\ o.kind = "failed"
              /\ pc' = "confirm"
              /\ upload' = NoUpload
              /\ payload' = AssemblePayload(slug, markdown_body, metadata,
                                            None, None)
              /\ cyc' = Ran(cyc, << "ASSEMBLE_PAYLOAD" >>)
         ELSE CASE o.kind = "registered" ->
                     /\ pc' = "upload_transfer"
                     /\ upload' = [NoUpload EXCEPT
                                      !.expected = o.expected,
                                      !.asset_id = o.asset_id,
                                      !.hosted_url = o.hosted_url,
                                      !.file_hash = md5_hash]
                     /\ UNCHANGED << payload, cyc >>
                [] o.kind = "details_not_object" ->
                     /\ Crash(<< >>)
                     /\ UNCHANGED << upload, payload >>
                [] OTHER ->
                     /\ pc' = "confirm"
                     /\ upload' = NoUpload
                     /\ payload' = AssemblePayload(slug, markdown_body,
                                                   metadata, None, None)
                     /\ cyc' = Ran(cyc, << "ASSEMBLE_PAYLOAD" >>)
    /\ call' = NoCall
    /\ UNCHANGED << sideVars, argVars, i, runVars, textVars, imageVars, confirm,
                    proceed_to_create, new_item_id, loopVars, sheet,
                    run >>

\* HTTP status codes the upload location answers with.
TransferStatuses == { 200, 201, 204, 304, 403 }

\* int(s) of the status field: the number, ValueError for a text that is
\* not a number, TypeError for None (JSON null).
ParseStatus(s) ==
    CASE s = "201" -> [raised |-> "no", n |-> 201]
      [] s = "204" -> [raised |-> "no", n |-> 204]
      [] s = "0" -> [raised |-> "no", n |-> 0]
      [] s = "null" -> [raised |-> "TypeError", n |-> 0]
      [] OTHER -> [raised |-> "ValueError", n |-> 0]

\* requests.Response.ok: raise_for_status() does not raise, which it does
\* for the statuses from 400 on.
ResponseOk(status) == status < 400

\* webflow_client.py lines 131-157 and 165-167: whether the transfer counts
\* as done. An absent status field defaults to '201' (line 132); ValueError
\* gives expected_s3_status = None (lines 135-137), any other exception of
\* int() is caught at line 165 and ends the upload; `if expected_s3_status`
\* (line 139) is false for None and for 0.
TransferAccepted(expected, status) ==
    LET parsed == ParseStatus(IF expected = None THEN "201" ELSE expected)
    IN  CASE parsed.raised = "TypeError" -> FALSE
          [] parsed.raised = "ValueError" -> ResponseOk(status)
          [] parsed.n = 0 -> ResponseOk(status)
          [] OTHER -> status = parsed.n

\* webflow_client.py lines 113-167 and main.py lines 393-403, 412-419: the
\* second request of upload_asset_from_bytes, then payload assembly.
UploadTransfer ==
    /\ pc = "upload_transfer"
    /\ \E network_ok \in BOOLEAN, status \in TransferStatuses :
         LET done == network_ok /\ TransferAccepted(upload.expected, status)
             returned_id == IF done THEN upload.asset_id ELSE None
             returned_url == IF done THEN upload.hosted_url ELSE None
             both == Set(returned_id) /\ Set(returned_url)
             file_id == IF both THEN returned_id ELSE None
             url == IF both THEN returned_url ELSE None
         IN  /\ network_ok \/ status = 403
             /\ image_file_id' = file_id
             /\ hosted_image_url' = url
             /\ payload' = AssemblePayload(slug, markdown_body, metadata,
                                           file_id, url)
             /\ upload' = [upload EXCEPT
                              !.sent = network_ok,
                              !.status = IF network_ok THEN status ELSE 0,
                              !.file_bytes = compressed_image_bytes]
    /\ pc' = "confirm"
    /\ cyc' = Ran(cyc, << "ASSEMBLE_PAYLOAD" >>)
    /\ call' = NoCall
    /\ UNCHANGED << sideVars, argVars, i, runVars, textVars, original_image_bytes,
                    compressed_image_bytes, md5_hash, confirm,
                    proceed_to_create, new_item_id, loopVars, sheet,
                    run >>

\* ProceedToCreate going on unless the answer is "n".
ProceedToCreate_UnlessNo(auto_mode_, answer) ==
    IF ~auto_mode_ THEN LowerAnswer(answer) # "n" ELSE TRUE

\* ProceedToCreate with the confirmation gate left out.
ProceedToCreate_Always(auto_mode_, answer) == TRUE

\* main.py lines 434-444: whether the cycle goes on to create the item.
ProceedToCreate(auto_mode_, answer) ==
    IF ~auto_mode_ THEN LowerAnswer(answer) = "y" ELSE TRUE

\* The end of the loop body: main.py lines 508-511.
EndOfCycle(c) ==
    /\ cyc' = c
    /\ pc' = IF i < num_posts - 1 THEN "cooldown" ELSE "loop"

\* main.py lines 421-447 and, on rejection, the skipped block 448-506.
Confirm ==
    /\ pc = "confirm"
    /\ \E answer \in (IF auto_mode THEN { None } ELSE Answers) :
         /\ confirm' = answer
         /\ proceed_to_create' = ProceedToCreate(auto_mode, answer)
         /\ IF ProceedToCreate(auto_mode, answer)
            THEN /\ pc' = "publish"
                 /\ cyc' = Ran([cyc EXCEPT !.confirmed = TRUE],
                               << "CONFIRM" >>)
            ELSE EndOfCycle(Ran([cyc EXCEPT !.confirmed = TRUE,
                                            !.outcome = "rejected"],
                                << "CONFIRM" >>))
    /\ call' = NoCall
    /\ upload' = NoUpload
    /\ UNCHANGED << sideVars, argVars, i, runVars, textVars, imageVars, payload,
                    new_item_id, loopVars, sheet, run >>

\* The identifier the CMS gives a created item.
ItemId == Str(<< "i","t","e","m" >>)

\* What create_cms_item meets: no API key configured (no request is made);
\* or the request answers 200, 201 or 202 with an id, without one, or with a
\* body that is not JSON; answers an error status; or fails on the network.
CreateItemOutcomes ==
    { "no_api_key", "created", "no_id", "bad_body", "http_error",
      "network_error" }

\* create_cms_item repeating the request after an error status.
create_cms_item_Retry(payload_, o) ==
    IF o = "no_api_key" \/ ~("slug" \in DOMAIN payload_.fieldData)
    THEN [id |-> Null, requests |-> 0]
    ELSE [id |-> IF o = "created" THEN ItemId ELSE Null,
          requests |-> IF o = "http_error" THEN 2 ELSE 1]

\* create_cms_item taking the identifier whatever the status of the response.
create_cms_item_AnyStatus(payload_, o) ==
    IF o = "no_api_key" \/ ~("slug" \in DOMAIN payload_.fieldData)
    THEN [id |-> Null, requests |-> 0]
    ELSE [id |-> IF o \in { "created", "http_error" } THEN ItemId ELSE Null,
          requests |-> 1]

\* webflow_client.py lines 170-250: what create_cms_item returns and the
\* number of item-creation requests it issued.
create_cms_item(payload_, o) ==
    IF o = "no_api_key" \/ ~("slug" \in DOMAIN payload_.fieldData)
    THEN [id |-> Null, requests |-> 0]
    ELSE [id |-> IF o = "created" THEN ItemId ELSE Null, requests |-> 1]

\* The literal "Untitled Post" of framer_sheets_provider.py line 40.
UNTITLED_POST_NAME ==
    << "U","n","t","i","t","l","e","d"," ","P","o","s","t" >>

\* The time of the call as utcnow().isoformat() writes it.
UtcNow == << "n","o","w" >>

\* DraftCell without the .upper().
DraftCell_NoUpper(metadata_) == PyStr(Get(metadata_._draft, JsonTrue))

\* cms_providers/framer_sheets_provider.py line 47: the draft column.
DraftCell(metadata_) == Upper(PyStr(Get(metadata_._draft, JsonTrue)))

\* FramerRow putting the address of the image where image bytes are given.
FramerRow_ImageUrl(slug_, html_body, metadata_, image_bytes) ==
    [name |-> Get(metadata_.title, Str(UNTITLED_POST_NAME)),
     slug |-> slug_,
     excerpt_page |-> Get(metadata_.excerpt_page, Str(<< >>)),
     excerpt_featured |-> Get(metadata_.excerpt_featured, Str(<< >>)),
     reading_time |-> Get(metadata_.reading_time, Num(<< "1" >>)),
     body_html |-> Markdown(html_body),
     image_url |-> IF image_bytes = None THEN << >> ELSE << "u","r","l" >>,
     draft |-> DraftCell(metadata_),
     created_at |-> UtcNow]

\* cms_providers/framer_sheets_provider.py lines 33-49: the row of a post.
FramerRow(slug_, html_body, metadata_, image_bytes) ==
    [name |-> Get(metadata_.title, Str(UNTITLED_POST_NAME)),
     slug |-> slug_,
     excerpt_page |-> Get(metadata_.excerpt_page, Str(<< >>)),
     excerpt_featured |-> Get(metadata_.excerpt_featured, Str(<< >>)),
     reading_time |-> Get(metadata_.reading_time, Num(<< "1" >>)),
     body_html |-> Markdown(html_body),
     image_url |-> << >>,
     draft |-> DraftCell(metadata_),
     created_at |-> UtcNow]

\* The value gspread's get_all_records() gives for a cell: with its default
\* arguments it turns every cell whose text reads as a number into that
\* number (here: a text of digits only), and leaves other texts as they are.
RecordValue(cell) ==
    IF cell # << >> /\ \A k \in 1..Len(cell) : cell[k] \in Digits
    THEN [tag |-> "num", s |-> cell]
    ELSE Str(cell)

\* sheets_client.py line 42 and 45: the rows whose record has the slug, a
\* string, as its "slug" value; the dict comprehension keeps the last.
RowsWithSlug(sheet_, slug_) ==
    { k \in 1..Len(sheet_) : RecordValue(sheet_[k].slug) = Str(slug_) }

\* sheets_client.py lines 37-53: the worksheet after upsert(row).
upsert(sheet_, row) ==
    IF RowsWithSlug(sheet_, row.slug) # {}
    THEN LET k == CHOOSE x \in RowsWithSlug(sheet_, row.slug) :
                      \A y \in RowsWithSlug(sheet_, row.slug) : y <= x
         IN  [sheet_ EXCEPT ![k] = row]
    ELSE Append(sheet_, row)

\* FramerSheetsProvider.publish without its return statement.
publish_NoReturn(sheet_, slug_, html_body, metadata_, image_bytes) ==
    [sheet |-> upsert(sheet_, FramerRow(slug_, html_body, metadata_,
                                        image_bytes)),
     result |-> Null, upserts |-> 1]

\* cms_providers/framer_sheets_provider.py lines 18-53: the worksheet after
\* publish(), the value it returns (upsert returns row["slug"], sheets_client
\* lines 41 and 53) and the number of upserts it did.
publish(sheet_, slug_, html_body, metadata_, image_bytes) ==
    LET row == FramerRow(slug_, html_body, metadata_, image_bytes)
    IN  [sheet |-> upsert(sheet_, row), result |-> Str(row.slug),
         upserts |-> 1]

\* What the publish target does: create_cms_item's outcomes for webflow;
\* for framer-sheets the upsert is done, or a spreadsheet request raises.
PublishOutcomes ==
    IF provider = "webflow" THEN CreateItemOutcomes
    ELSE { "upserted", "raised" }

\* HasSummary with the test of main.py line 468 left out.
HasSummary_Always(metadata_) == TRUE

\* main.py lines 467-468: the metadata gives a summary for the ledger.
HasSummary(metadata_) == Truthy(Get(metadata_.excerpt_page, Null))

\* main.py lines 448-459: the publish call. A rejected cycle never gets
\* here; an exception raised by the spreadsheet request leaves main().
Publish ==
    /\ pc = "publish"
    /\ \E o \in PublishOutcomes :
         LET created == create_cms_item(payload, o)
             upserted == publish(sheet, slug, markdown_body, metadata,
                                 compressed_image_bytes)
             item == IF provider = "webflow" THEN created.id
                     ELSE upserted.result
             requests == IF provider = "webflow" THEN created.requests ELSE 0
             c1 == [cyc EXCEPT !.publish_calls = @ + 1,
                               !.item_posts = @ + requests,
                               !.answer = o,
                               !.stages = Append(@, "PUBLISH"),
                               !.upserts = @ + (IF provider = "webflow"
                                                THEN 0 ELSE upserted.upserts)]
             r1 == [run EXCEPT !.publish_calls = @ + 1]
         IN  IF provider # "webflow" /\ o = "raised"
             THEN /\ pc' = "crashed"
                  /\ cyc' = [c1 EXCEPT !.outcome = "crashed"]
                  /\ run' = r1
                  /\ UNCHANGED << new_item_id, sheet >>
             ELSE /\ pc' = "finalize"
                  /\ new_item_id' = item
                  /\ sheet' = IF provider = "webflow" THEN sheet
                              ELSE upserted.sheet
                  /\ cyc' = c1
                  /\ run' = [r1 EXCEPT !.publish_ok =
                                @ + (IF Truthy(item) THEN 1 ELSE 0)]
    /\ call' = NoCall
    /\ UNCHANGED << sideVars, argVars, i, runVars, textVars, imageVars, payload,
                    confirm, proceed_to_create, loopVars, upload >>

\* WantsDraft whatever the flag says.
WantsDraft_Always(generate_linkedin_) == TRUE

\* main.py line 479: `if generate_linkedin`.
WantsDraft(generate_linkedin_) == generate_linkedin_

\* Finalizes with the test of main.py line 463 left out.
Finalizes_Always(new_item_id_) == TRUE

\* main.py line 463: `if new_item_id`.
Finalizes(new_item_id_) == Truthy(new_item_id_)

\* main.py lines 461-479 and 505-506: the success count and the ledger
\* update after the publish call. write_ok: the ledger file could be opened
\* and written.
Finalize ==
    /\ pc = "finalize"
    /\ \E write_ok \in BOOLEAN :
         LET new_summary == Get(metadata.excerpt_page, Null)
             saves == HasSummary(metadata)
             failed_write == saves /\ ~write_ok
             url == WEBFLOW_PUBLISHED_URL_BASE \o slug
         IN  IF ~Finalizes(new_item_id)
             THEN /\ write_ok
                  /\ run' = run
                  /\ EndOfCycle([cyc EXCEPT !.outcome = "publish_failed"])
                  /\ UNCHANGED << runVars, blog_post_url >>
             ELSE /\ posts_created_count' = posts_created_count + 1
                  /\ run' = [run EXCEPT
                         !.published =
                             IF metadata.excerpt_page.tag = "str"
                                /\ Len(metadata.excerpt_page.s) > 0
                             THEN Append(@, [summary |-> metadata.excerpt_page.s,
                                             url |-> url])
                             ELSE @,
                         !.write_failures =
                             @ + (IF failed_write THEN 1 ELSE 0),
                         !.publish_ok_with_excerpt =
                             @ + (IF metadata.excerpt_page.tag = "str"
                                     /\ Len(metadata.excerpt_page.s) > 0
                                  THEN 1 ELSE 0)]
                  /\ IF saves
                     THEN /\ blog_post_url' = url
                          /\ summaries_file' =
                               save_summary(summaries_file, new_summary.s,
                                            url, write_ok)
                          /\ previous_summaries' =
                               Append(previous_summaries,
                                      [summary |-> new_summary.s,
                                       url |-> url])
                     ELSE /\ write_ok
                          /\ UNCHANGED << blog_post_url, summaries_file,
                                          previous_summaries >>
                  /\ LET c2 == [cyc EXCEPT
                           !.outcome = "published",
                           !.counted = @ + 1,
                           !.write_failed = failed_write,
                           !.stages = IF saves THEN Append(@, "LEDGER_UPDATE")
                                      ELSE @,
                           !.list_appends =
                               @ + Len(previous_summaries')
                                 - Len(previous_summaries),
                           !.file_appends =
                               @ + Len(SplitLines(summaries_file'))
                                 - Len(SplitLines(summaries_file))]
                     IN  IF WantsDraft(generate_linkedin)
                         THEN /\ pc' = "generate_linkedin"
                              /\ cyc' = c2
                         ELSE EndOfCycle(c2)
    /\ retries' = 0
    /\ call' = NoCall
    /\ UNCHANGED << sideVars, argVars, i, markdown_body, metadata, slug, imageVars,
                    pubVars, attempt, upload, sheet >>

\* What the text model does on a social-draft call, and what the clipboard
\* does when a draft is copied to it (pyperclip.copy returns or raises).
LinkedinOutcomes ==
    { [remote |-> "transient", content |-> "-", clipboard |-> "-"],
      [remote |-> "fatal",     content |-> "-", clipboard |-> "-"],
      [remote |-> "response",  content |-> "no_content", clipboard |-> "-"],
      [remote |-> "response",  content |-> "text", clipboard |-> "copied"],
      [remote |-> "response",  content |-> "text", clipboard |-> "raised"] }

\* main.py lines 486-503: what is done with the result of
\* generate_linkedin_post, None unless the call ended on a text.
DraftStep(st, o) ==
    CASE st.end = "break" /\ o.content = "text" /\ o.clipboard = "copied" ->
            "copied"
      [] st.end = "break" /\ o.content = "text" -> "copy_failed"
      [] OTHER -> "failed"

\* main.py lines 478-503 with llm_handler.generate_linkedin_post: one
\* attempt of the social-draft call; the draft is printed and copied to the
\* clipboard, an error of the copy being caught at lines 499-500.
GenerateLinkedin ==
    /\ pc = "generate_linkedin"
    /\ \E o \in LinkedinOutcomes :
         LET st == GuardedStep(LinkedinRefuses(markdown_body, blog_post_url),
                               retries, o.remote)
             c1 == [cyc EXCEPT !.draft_calls =
                                  @ + (IF st.called THEN 1 ELSE 0),
                               !.draft_url =
                                  IF st.called THEN blog_post_url ELSE @]
         IN  /\ call' = Observe("linkedin", retries = 0, o.remote, st)
             /\ IF st.end = "loop"
                THEN /\ retries' = st.retries
                     /\ cyc' = c1
                     /\ pc' = pc
                ELSE /\ retries' = 0
                     /\ EndOfCycle(Ran([c1 EXCEPT !.draft = DraftStep(st, o)],
                                       << "SOCIAL_DRAFT" >>))
    /\ UNCHANGED << sideVars, argVars, i, runVars, textVars, imageVars, pubVars,
                    attempt, upload, sheet, run >>

\* main.py line 511: time.sleep(300) between two cycles.
Cooldown ==
    /\ pc = "cooldown"
    /\ pc' = "loop"
    /\ run' = [run EXCEPT !.cooldowns = @ + 1]
    /\ cyc' = Ran(cyc, << "COOLDOWN" >>)
    /\ call' = NoCall
    /\ UNCHANGED << sideVars, argVars, i, runVars, textVars, imageVars, pubVars,
                    loopVars, upload, sheet >>

Next ==
    \/ Setup
    \/ LoopHeader
    \/ GenerateBody
    \/ GenerateMetadata
    \/ GenerateImage
    \/ UploadRegister
    \/ UploadTransfer
    \/ Confirm
    \/ Publish
    \/ Finalize
    \/ GenerateLinkedin
    \/ Cooldown

Spec == Init /\ [][Next]_vars

\* ================================================================ claims

\* How an attempt of a retry-wrapped call ended: with a transient failure
\* (rate limit, resource conflict), with another exception, or with a
\* usable response.
IsTransient(a) == a \in { "transient", "rate_limit" }
IsRaisedFatal(a) == a \in { "fatal", "api_error", "error" }
IsSuccess(a) == a \in { "response", "image" }

Last(h) == h[Len(h)]

TransientsBefore(h, n) == Cardinality({ k \in 1..n : IsTransient(h[k]) })

\* C1: every retry-wrapped remote call (body, metadata, social draft, image)
\* invokes the remote operation at most 3 times and sleeps at most 2 times.
C1_BoundedAttempts ==
    /\ call.calls <= MAX_RETRIES
    /\ call.sleeps <= MAX_RETRIES - 1
    /\ call.fn = "image" =>
          call.calls <= max_retries_img /\ call.sleeps <= max_retries_img - 1

\* The image call whose rate limit clears on the third attempt.
C1_Witness ==
    /\ call.fn = "image"
    /\ call.hist = << "rate_limit", "rate_limit", "image" >>
    /\ call.calls = 3 /\ call.sleeps = 2
    /\ call.result = "response"

C3_RetrySchedule ==
    LET h == call.hist
        n == Len(h)
    IN  /\ (n > 0 /\ IsSuccess(h[n])
              /\ \A k \in 1..(n - 1) : IsTransient(h[k])) =>
               /\ call.result = "response"
               /\ call.calls = n
               /\ call.sleeps = n - 1
               /\ n <= MAX_RETRIES
        /\ (n >= MAX_RETRIES /\ \A k \in 1..n : IsTransient(h[k])) =>
               /\ call.result = "none"
               /\ call.calls = MAX_RETRIES
               /\ call.sleeps = MAX_RETRIES - 1

\* The body call that runs out of attempts.
C3_Witness ==
    /\ call.fn = "body"
    /\ call.hist = << "transient", "transient", "transient" >>
    /\ call.sleeps = 2
    /\ call.result = "none"
    /\ pc = "loop"

\* The run is past its one-time setup.
Started == pc \notin { "start", "config_failed" }

\* The code locations inside a cycle.
InCycle ==
    { "generate_body", "generate_metadata", "generate_image",
      "upload_register", "upload_transfer", "confirm", "publish",
      "finalize", "generate_linkedin" }

\* The metadata of the cycle carries a non-empty excerpt_page.
NonEmptyExcerpt ==
    metadata.excerpt_page.tag = "str" /\ metadata.excerpt_page.s # << >>

\* Entries of the ledger file and of the in-memory list added by this run.
FileEntriesAdded == Len(load_summaries(summaries_file)) - run.loaded
ListEntriesAdded == Len(previous_summaries) - run.loaded

\* C4 as stated: the entries added to the ledger, file and list alike, are
\* as many as the cycles published with a non-empty excerpt.
C4_OneEntryPerPublished ==
    Started =>
        /\ ListEntriesAdded = run.publish_ok_with_excerpt
        /\ FileEntriesAdded = run.publish_ok_with_excerpt

\* C4 amended: a cycle published with a non-empty excerpt adds one entry to
\* the in-memory list, and one line to the file unless writing the file
\* fails; any other cycle adds none to either.
C4_LedgerEntries ==
    /\ Started =>
          /\ ListEntriesAdded = run.publish_ok_with_excerpt
          /\ FileEntriesAdded =
                 run.publish_ok_with_excerpt - run.write_failures
    /\ cyc.outcome \in { "body_failed", "metadata_failed", "rejected",
                         "publish_failed", "crashed" } =>
          cyc.list_appends = 0 /\ cyc.file_appends = 0
    /\ cyc.outcome = "published" =>
          /\ cyc.list_appends = IF NonEmptyExcerpt THEN 1 ELSE 0
          /\ cyc.file_appends =
                 IF NonEmptyExcerpt /\ ~cyc.write_failed THEN 1 ELSE 0

\* A second published cycle whose ledger line was written.
C4_Witness ==
    /\ cyc.outcome = "published"
    /\ NonEmptyExcerpt
    /\ cyc.list_appends = 1 /\ cyc.file_appends = 1
    /\ run.publish_ok_with_excerpt = 2

\* C5: a cycle whose body or metadata generation returned None makes no
\* publish call, generates no image, writes no ledger entry, counts no
\* success, and the run is back at the loop header (or finished, if the
\* cycle was the last one).
C5_FailedGenerationSkipsCycle ==
    LET body_failed ==
            i >= 0 /\ pc # "generate_body" /\ markdown_body = None
        metadata_failed ==
            /\ i >= 0 /\ pc \notin { "generate_body", "generate_metadata" }
            /\ markdown_body = "BODY" /\ metadata = NoneDoc
    IN  (body_failed \/ metadata_failed) =>
            /\ cyc.publish_calls = 0
            /\ cyc.image_calls = 0
            /\ cyc.file_appends = 0 /\ cyc.list_appends = 0
            /\ cyc.counted = 0
            /\ posts_created_count <= i
            /\ pc \in { "loop", "done" }
            /\ pc = "done" => i = num_posts - 1

\* The text model answered the metadata call, the answer gave no metadata,
\* and another cycle is still to come.
C5_Witness ==
    /\ call.fn = "metadata" /\ call.result = "response"
    /\ metadata = NoneDoc
    /\ pc = "loop" /\ i < num_posts - 1

\* C6: when the run has ended it has started exactly N cycles and printed
\* the report.
C6_RunFinishesAfterN ==
    pc \in { "done", "crashed" } =>
        pc = "done" /\ i = num_posts - 1 /\ run.reported

\* C7: once the loop has started, no error in a cycle ends the run.
C7_ErrorsAreContained == pc # "crashed"

\* C8: one cooldown is taken between any two consecutive cycles, none after
\* the last: during cycle i there have been i cooldowns, and N-1 at the end.
C8_CooldownBetweenCycles ==
    /\ pc \in InCycle => run.cooldowns = i
    /\ pc = "done" => run.cooldowns = num_posts - 1

\* C9: in interactive mode the publish target is called only after the
\* answer y; a rejected cycle publishes nothing, writes no ledger entry,
\* requests no social draft and the run goes on; in auto mode a cycle that
\* reaches the confirmation goes on to publish.
C9_PublishOnlyIfApproved ==
    /\ (~auto_mode /\ (pc = "publish" \/ cyc.publish_calls > 0)) =>
          confirm \in { "y", "Y" }
    /\ (~auto_mode /\ cyc.confirmed /\ confirm \notin { "y", "Y" }) =>
          /\ cyc.publish_calls = 0
          /\ cyc.file_appends = 0 /\ cyc.list_appends = 0
          /\ cyc.draft_calls = 0
          /\ cyc.counted = 0
          /\ pc \in { "cooldown", "loop", "done" }
    /\ (auto_mode /\ cyc.confirmed) =>
          (pc = "publish" \/ cyc.publish_calls = 1)

\* The user typed "yes", which is not the approval, and the run goes on to
\* the cooldown before the next cycle.
C9_Witness ==
    /\ ~auto_mode /\ confirm = "yes"
    /\ cyc.outcome = "rejected"
    /\ pc = "cooldown"

\* C10: a cycle calls the publish operation at most once, a publish call
\* issues at most one item-creation request, and no later cycle makes up for
\* a failed publish (at most one publish call per cycle started).
C10_SinglePublish ==
    /\ cyc.publish_calls <= 1
    /\ cyc.item_posts <= cyc.publish_calls
    /\ run.publish_calls <= i + 1
    /\ pc = "publish" => cyc.publish_calls = 0

\* A failed item creation, left as it is: the run is at the cooldown.
C10_Witness ==
    /\ provider = "webflow"
    /\ cyc.outcome = "publish_failed"
    /\ cyc.publish_calls = 1 /\ cyc.item_posts = 1
    /\ pc = "cooldown"

\* C11: a ledger entry is appended only after the publish call of its cycle
\* returned an identifier: in every state, also between the publish call
\* and the ledger update, the entries appended during the run (list and
\* file) are at most the publish calls that returned an identifier, and a
\* cycle that appended holds the identifier of its publish call.
C11_EntriesAfterPublish ==
    /\ Started =>
          /\ ListEntriesAdded <= run.publish_ok
          /\ FileEntriesAdded <= run.publish_ok
    /\ (cyc.list_appends > 0 \/ cyc.file_appends > 0) =>
          cyc.publish_calls = 1 /\ Truthy(new_item_id)

\* The second cycle is between its successful publish call and the ledger
\* update: one entry appended, two publish calls returned.
C11_Witness ==
    /\ pc = "finalize" /\ Truthy(new_item_id)
    /\ run.publish_ok = 2
    /\ ListEntriesAdded = 1 /\ FileEntriesAdded = 1

\* ------------------------------------------------- the functions on their own

\* The variables a function checked on its own does not use, at rest.
Parked ==
    /\ num_posts = 1
    /\ generate_linkedin = FALSE
    /\ auto_mode = TRUE
    /\ provider = "framer-sheets"
    /\ upload_asset_fn = FALSE
    /\ i = -1
    /\ posts_created_count = 0
    /\ markdown_body = None
    /\ blog_post_url = << >>
    /\ original_image_bytes = None
    /\ compressed_image_bytes = None
    /\ md5_hash = None
    /\ image_file_id = None
    /\ hosted_image_url = None
    /\ payload = NoPayload
    /\ confirm = None
    /\ proceed_to_create = FALSE
    /\ new_item_id = Null
    /\ retries = 0
    /\ attempt = 0
    /\ upload = NoUpload
    /\ call = NoCall
    /\ cyc = [NewCycle EXCEPT !.outcome = "none"]
    /\ run = NewRun(<< >>)
    /\ uploaded_files = << >>
    /\ ctx = NewContext

parkedVars ==
    << sideVars, argVars, i, posts_created_count, markdown_body, blog_post_url,
       imageVars, pubVars, loopVars, upload, call, cyc, run >>

\* Characters of the titles: an upper-case and a lower-case letter, a digit,
\* the space, the hyphen and a punctuation mark.
TitleAlphabet == { "A", "b", "1", " ", "-", "!" }

\* The titles of at most MaxTitleLen characters.
Titles == UNION { [1..n -> TitleAlphabet] : n \in 0..MaxTitleLen }

\* main.py lines 273-275 applied to a title, and applied again to its own
\* result.
SlugInit ==
    /\ Parked
    /\ MigrationAtRest
    /\ pc = "slugify"
    /\ \E t \in Titles : metadata = Doc("dict", TRUE, Str(t), Missing, Missing)
    /\ slug = << >>
    /\ previous_summaries = << >>
    /\ summaries_file = << >>
    /\ sheet = << >>

SlugifyTitle ==
    /\ pc = "slugify"
    /\ slug' = Slugify(Get(metadata.title, Str(UNTITLED_POST)).s)
    /\ pc' = "slugified"
    /\ UNCHANGED << parkedVars, metadata, previous_summaries, summaries_file,
                    sheet >>

SlugifyAgain ==
    /\ pc = "slugified"
    /\ slug' = Slugify(slug)
    /\ pc' = "reslugified"
    /\ UNCHANGED << parkedVars, metadata, previous_summaries, summaries_file,
                    sheet >>

SlugNext == SlugifyTitle \/ SlugifyAgain

SlugSpec == SlugInit /\ [][SlugNext]_vars

\* A title without any letter or digit.
OnlyPunctuation(t) == \A k \in 1..Len(t) : t[k] \in { " ", "-", "!" }

\* C12: the slug of a slug is that slug; a slug is never empty and holds
\* only lower-case letters, digits and hyphens; a title of punctuation only
\* gives "untitled-post".
C12_SlugIdempotent ==
    /\ pc = "reslugified" => slug = Slugify(metadata.title.s)
    /\ pc \in { "slugified", "reslugified" } =>
          /\ slug # << >>
          /\ \A k \in 1..Len(slug) :
                 slug[k] \in LowerLetters \cup Digits \cup { "-" }
          /\ OnlyPunctuation(metadata.title.s) => slug = UNTITLED_POST

\* "A b!" has been slugified twice and is "a-b".
C12_Witness ==
    /\ pc = "reslugified"
    /\ metadata.title.s = << "A", " ", "b", "!" >>
    /\ slug = << "a", "-", "b" >>

\* Summaries and URLs given to save_summary, all non-empty: plain ones, and
\* summaries with blanks around them, with the separator inside, with a
\* line break at the end, and of one blank only.
LedgerSummaries ==
    { << "a" >>, << "a", " ", "b" >>, << " ", "a" >>,
      << "a", ":", ":", "b" >>, << "a", "\n" >>, << " " >> }

LedgerUrls == { << "u" >>, << "u", "/", "a" >> }

\* A line without the separator, as found in a ledger edited by hand.
MalformedLine == << "j", "u", "n", "k", "\n" >>

\* main.py lines 52-86 on a ledger file of their own: the file starts empty
\* or missing, entries are appended with save_summary (the file can be
\* written), lines without separator come in between; previous_summaries
\* holds the entries given to save_summary, in order.
LedgerInit ==
    /\ Parked
    /\ MigrationAtRest
    /\ pc = "ledger"
    /\ metadata = NoneDoc
    /\ slug = << >>
    /\ previous_summaries = << >>
    /\ summaries_file = << >>
    /\ sheet = << >>

AppendEntry ==
    /\ pc = "ledger"
    /\ Len(SplitLines(summaries_file)) < MaxLedgerLines
    /\ \E summary \in LedgerSummaries, url \in LedgerUrls :
          /\ summaries_file' = save_summary(summaries_file, summary, url, TRUE)
          /\ previous_summaries' =
                 Append(previous_summaries, [summary |-> summary, url |-> url])
    /\ UNCHANGED << parkedVars, pc, metadata, slug, sheet >>

AppendMalformed ==
    /\ pc = "ledger"
    /\ Len(SplitLines(summaries_file)) < MaxLedgerLines
    /\ summaries_file' = summaries_file \o MalformedLine
    /\ UNCHANGED << parkedVars, pc, metadata, slug, previous_summaries,
                    sheet >>

LedgerNext == AppendEntry \/ AppendMalformed

LedgerSpec == LedgerInit /\ [][LedgerNext]_vars

\* C13: loading the file gives exactly the entries that were appended, in
\* the order they were appended, whatever lines without separator lie in
\* between.
C13_RoundTrip == load_summaries(summaries_file) = previous_summaries

\* The image fields of the payload.
ImageFields == { "post-main-image", "post-main-image-thumbnail" }

\* The payload has both image fields, each with the asset id and the URL.
HasImageFields(payload_, id, url) ==
    \A k \in ImageFields :
        /\ k \in DOMAIN payload_.fieldData
        /\ payload_.fieldData[k] = [tag |-> "image", s |-> << id, url >>]

\* The payload has none of the image fields.
HasNoImageField(payload_) == ImageFields \cap DOMAIN payload_.fieldData = {}

\* C14: once assembled, the payload for the structured CMS has both image
\* fields, filled from the asset id and the hosted URL, when the upload gave
\* both, and no image field at all otherwise; and prepare_webflow_payload
\* gives such a payload for every combination of a present, empty or absent
\* asset id and hosted URL.
C14_ImageBothOrNeither ==
    (provider = "webflow"
        /\ pc \in { "confirm", "publish", "finalize", "generate_linkedin" }) =>
        /\ IF Set(image_file_id) /\ Set(hosted_image_url)
           THEN HasImageFields(payload, image_file_id, hosted_image_url)
           ELSE HasNoImageField(payload)
        /\ \A id \in { None, "", "ASSET" }, url \in { None, "", "HOSTED" } :
             LET p == prepare_webflow_payload(slug, markdown_body, metadata,
                                              id, url)
             IN  IF Set(id) /\ Set(url)
                 THEN HasImageFields(p, id, url)
                 ELSE HasNoImageField(p)

\* An image was generated and hashed, the upload gave no asset, and the
\* payload was assembled without image fields.
C14_Witness ==
    /\ provider = "webflow" /\ pc = "confirm"
    /\ Set(md5_hash)
    /\ image_file_id = None /\ hosted_image_url = None
    /\ HasNoImageField(payload)
    /\ "slug" \in DOMAIN payload.fieldData

\* The slug of the title "Post About X".
SlugPostAboutX == << "p","o","s","t","-","a","b","o","u","t","-","x" >>

\* The step is the ledger update of a cycle whose publish call returned an
\* identifier and whose metadata has a non-empty excerpt.
LedgerUpdateStep ==
    pc = "finalize" /\ Truthy(new_item_id) /\ NonEmptyExcerpt

\* The line "E::<base-url>S" for the excerpt and the slug of the cycle.
ExpectedLine ==
    metadata.excerpt_page.s \o << ":", ":" >>
        \o WEBFLOW_PUBLISHED_URL_BASE \o slug \o << "\n" >>

\* C15 as stated: the ledger update of a successful publish adds exactly the
\* line "E::<base-url>S" to the ledger file, with either publish target.
C15_LineAppended ==
    [][LedgerUpdateStep => summaries_file' = summaries_file \o ExpectedLine]_vars

\* C15 amended: the ledger update adds exactly the line "E::<base-url>S" to
\* the file unless writing the file fails, which leaves the file as it was;
\* the in-memory list gains the pair of E and <base-url>S in either case;
\* the base URL is that of the structured CMS with either publish target.
C15_LineAppendedIfWritten ==
    [][LedgerUpdateStep =>
          /\ summaries_file' =
                 IF cyc'.write_failed THEN summaries_file
                 ELSE summaries_file \o ExpectedLine
          /\ previous_summaries' =
                 Append(previous_summaries,
                        [summary |-> metadata.excerpt_page.s,
                         url |-> WEBFLOW_PUBLISHED_URL_BASE \o slug])]_vars

\* With the spreadsheet target and an empty ledger, the post "Post About X"
\* is published and the file is the line
\* "Post about X::https://www.valuemate.ai/blog/post-about-x".
C15_Witness ==
    /\ provider = "framer-sheets"
    /\ cyc.outcome = "published"
    /\ slug = SlugPostAboutX
    /\ summaries_file =
           ExcerptPostAboutX \o << ":", ":" >> \o WEBFLOW_PUBLISHED_URL_BASE
               \o SlugPostAboutX \o << "\n" >>

\* upload_asset_from_bytes has just returned after an answer of the upload
\* location, and the registration had given both an asset id and a hosted
\* URL, so that what it returned is what main kept.
TransferAnswered ==
    /\ pc = "confirm" /\ upload.sent
    /\ Set(upload.asset_id) /\ Set(upload.hosted_url)

\* The upload returned the asset id and the hosted URL.
UploadReturnedAsset ==
    image_file_id = upload.asset_id /\ hosted_image_url = upload.hosted_url

\* The upload returned (None, None).
UploadReturnedNone == image_file_id = None /\ hosted_image_url = None

\* The status fields int() turns into a number (an absent field stands for
\* '201'), and the number.
StatusFieldParses(e) == e \in { None, "201", "204", "0" }
StatusFieldNumber(e) ==
    CASE e = "204" -> 204
      [] e = "0" -> 0
      [] OTHER -> 201

\* C16: with a status field that is not an integer, every 2xx answer makes
\* the upload return the asset id and the hosted URL; with one that is, the
\* upload returns them when the answer has exactly that status and
\* (None, None) otherwise.
C16_StatusFallback ==
    TransferAnswered =>
        IF StatusFieldParses(upload.expected)
        THEN IF upload.status = StatusFieldNumber(upload.expected)
             THEN UploadReturnedAsset
             ELSE UploadReturnedNone
        ELSE upload.status \in 200..299 => UploadReturnedAsset

\* Rows given to upsert: three slugs, one of them of digits only, each with
\* two bodies.
SheetSlugs == { << "a" >>, << "b" >>, << "7" >> }
SheetRows ==
    { FramerRow(sl, body, Doc("dict", FALSE, Missing, Missing, Missing),
                None) :
        sl \in SheetSlugs, body \in { "BODY", "BODY2" } }

\* sheets_client.py lines 37-53 on a worksheet of its own, which starts
\* empty or with one row.
UpsertInit ==
    /\ Parked
    /\ MigrationAtRest
    /\ pc = "sheet"
    /\ metadata = NoneDoc
    /\ slug = << >>
    /\ previous_summaries = << >>
    /\ summaries_file = << >>
    /\ sheet \in { << >> } \cup { << r >> : r \in SheetRows }

Upsert ==
    /\ pc = "sheet"
    /\ Len(sheet) < MaxRows
    /\ \E row \in SheetRows : sheet' = upsert(sheet, row)
    /\ UNCHANGED << parkedVars, pc, metadata, slug, previous_summaries,
                    summaries_file >>

UpsertNext == Upsert

UpsertSpec == UpsertInit /\ [][UpsertNext]_vars

\* C17: every slug is in at most one row of the worksheet.
C17_SlugsUnique ==
    \A j \in 1..Len(sheet), k \in 1..Len(sheet) :
        sheet[j].slug = sheet[k].slug => j = k

\* The entries of the cycles before the current one that were published
\* with a non-empty excerpt, in publication order.
PublishedEarlier ==
    SubSeq(run.published, 1, Len(run.published) - cyc.list_appends)

\* C18: the ledger file is loaded once, before the first cycle, and the
\* list handed to body generation in a cycle is the list loaded from the
\* file as it was at the start, followed by the entries of the earlier
\* cycles of the run that were published with a non-empty excerpt, in
\* publication order.
C18_LoadedOnceThenAppended ==
    /\ run.loads = IF Started THEN 1 ELSE 0
    /\ pc \in InCycle =>
          cyc.handed = load_summaries(run.initial_file) \o PublishedEarlier

\* The second cycle is handed the entry loaded from the file and the entry
\* of the first cycle, whose line could not be written to the file.
C18_Witness ==
    /\ pc = "generate_body" /\ i = 1
    /\ run.write_failures = 1
    /\ Len(load_summaries(run.initial_file)) = 1
    /\ Len(cyc.handed) = 2
    /\ cyc.handed[2].summary = ExcerptPostAboutX

\* C19: the image service is called in a cycle only if the metadata of the
\* cycle has a non-empty image description, the publish target is the
\* structured CMS and its asset-upload function is available.
C19_ImageOnlyIfUploadable ==
    cyc.image_calls > 0 =>
        /\ Truthy(metadata.image_description)
        /\ provider = "webflow"
        /\ upload_asset_fn

\* C20: in the image loop every attempt but the last follows a rate-limit
\* answer, and a cycle that called the image service is not cut off by an
\* error: the run never ends in it.
C20_ImageFailuresContained ==
    /\ call.fn = "image" =>
          \A k \in 1..(Len(call.hist) - 1) : call.hist[k] = "rate_limit"
    /\ cyc.image_calls > 0 => pc # "crashed"

\* C21: a metadata response that parses as a JSON object, whatever keys it
\* lacks, is not a failed metadata generation: the cycle is not given up at
\* the metadata stage.
C21_MissingKeysNotFailure ==
    metadata.kind = "dict" => cyc.outcome # "metadata_failed"

\* ------------------------------------------------------------------ C22

\* The answers on which create_cms_item gives no identifier.
CreateItemFailures == CreateItemOutcomes \ { "created" }

\* C22: the creation of a CMS item gives an identifier only when the answer
\* has a success status and a body with an identifier. On every other answer
\* (an error status, a network error, a body without an identifier or one
\* that is not JSON) it gives nothing and raises nothing: the cycle ends as
\* not successful, nothing is counted and the ledger gets no entry.
C22_ItemIdOnlyWhenCreated ==
    (provider = "webflow" /\ cyc.answer # "none") =>
        /\ Truthy(new_item_id) <=> cyc.answer = "created"
        /\ pc # "crashed" \/ cyc.answer = "created"
        /\ cyc.answer \in CreateItemFailures =>
              /\ pc # "finalize" => cyc.outcome = "publish_failed"
              /\ cyc.counted = 0
              /\ cyc.file_appends = 0
              /\ cyc.list_appends = 0
              /\ cyc.draft_calls = 0

C22_Witness ==
    /\ provider = "webflow"
    /\ cyc.answer = "bad_body"
    /\ cyc.outcome = "publish_failed"
    /\ cyc.item_posts = 1
    /\ new_item_id = Null

\* ------------------------------------------- the spreadsheet publisher

\* A metadata object with all keys FramerSheetsProvider.publish reads.
FullDoc(title, excerpt_page, excerpt_featured, reading_time, draft) ==
    [Doc("dict", TRUE, title, excerpt_page, Missing) EXCEPT
         !.excerpt_featured = excerpt_featured,
         !.reading_time = reading_time,
         !._draft = draft]

\* The metadata handed to publish(): complete, with each value of _draft
\* (absent, true, false, null); without any of the keys; and with every key
\* null.
FramerDocs ==
    { FullDoc(Str(TitlePostAboutX), Str(ExcerptPostAboutX),
              Str(ExcerptPostAboutX), Num(<< "3" >>), d) :
        d \in { Missing, JsonTrue, JsonFalse, Null } }
    \cup { FullDoc(Missing, Missing, Missing, Missing, Missing),
           FullDoc(Null, Null, Null, Null, Missing) }

\* FramerSheetsProvider.publish called on a worksheet that starts empty,
\* with and without image bytes. The arguments of the last call are kept
\* in slug, markdown_body, metadata and compressed_image_bytes, its result
\* in new_item_id.
FramerInit ==
    /\ Parked
    /\ MigrationAtRest
    /\ pc = "framer"
    /\ metadata = NoneDoc
    /\ slug = << >>
    /\ previous_summaries = << >>
    /\ summaries_file = << >>
    /\ sheet = << >>

FramerPublish ==
    /\ pc = "framer"
    /\ cyc.publish_calls < MaxRows
    /\ \E slug_ \in SheetSlugs, doc \in FramerDocs,
          image_bytes \in { None, "PNG" } :
         LET p == publish(sheet, slug_, "BODY", doc, image_bytes)
         IN  /\ slug' = slug_
             /\ markdown_body' = "BODY"
             /\ metadata' = doc
             /\ compressed_image_bytes' = image_bytes
             /\ sheet' = p.sheet
             /\ new_item_id' = p.result
             /\ cyc' = [cyc EXCEPT !.publish_calls = @ + 1,
                                   !.upserts = @ + p.upserts]
    /\ UNCHANGED << sideVars, argVars, pc, i, runVars, blog_post_url,
                    original_image_bytes, md5_hash, image_file_id,
                    hosted_image_url, payload, confirm, proceed_to_create,
                    loopVars, upload, call, run >>

FramerNext == FramerPublish

FramerSpec == FramerInit /\ [][FramerNext]_vars

\* The rows of the worksheet written for the slug of the last call.
RowsOfLastCall == { k \in 1..Len(sheet) : sheet[k].slug = slug }

\* C23: the spreadsheet publisher never handles the image: after every
\* publish call, made with image bytes or without, the image_url column of
\* every row is the empty string and no asset upload was made.
C23_ImageIgnored ==
    /\ \A k \in 1..Len(sheet) : sheet[k].image_url = << >>
    /\ upload = NoUpload
    /\ image_file_id = None
    /\ hosted_image_url = None

C23_Witness ==
    /\ cyc.publish_calls > 0
    /\ compressed_image_bytes = "PNG"
    /\ \E k \in RowsOfLastCall : sheet[k].image_url = << >>

\* C24: the draft column of the row is "FALSE" exactly when the metadata
\* has _draft false, and "TRUE" when _draft is true or absent.
C24_DraftColumn ==
    \A k \in 1..Len(sheet) :
        (sheet[k] = FramerRow(slug, markdown_body, metadata,
                              compressed_image_bytes)) =>
            /\ sheet[k].draft = << "F","A","L","S","E" >>
                   <=> metadata._draft = JsonFalse
            /\ metadata._draft \in { JsonTrue, Missing } =>
                   sheet[k].draft = << "T","R","U","E" >>

C24_Witness ==
    /\ metadata._draft = JsonFalse
    /\ \E k \in RowsOfLastCall : sheet[k].draft = << "F","A","L","S","E" >>

\* C25: every publish call of the spreadsheet publisher does exactly one
\* upsert, whose row has the given slug unchanged in its slug column, and
\* returns what the upsert returns: that slug.
C25_OneUpsertReturnsSlug ==
    /\ cyc.upserts = cyc.publish_calls
    /\ cyc.publish_calls > 0 =>
          /\ \E k \in 1..Len(sheet) :
                sheet[k] = FramerRow(slug, markdown_body, metadata,
                                     compressed_image_bytes)
          /\ new_item_id = Str(slug)

C25_Witness ==
    /\ cyc.publish_calls = 2
    /\ cyc.upserts = 2
    /\ Len(sheet) = 1
    /\ new_item_id = Str(slug)
    /\ slug = << "a" >>

\* ------------------------------------------------------------------ C26

\* The steps of a cycle in the order of the loop body (main.py 238-511).
StageOrder ==
    << "GENERATE_BODY", "EXTRACT_INTERLINKS", "GENERATE_METADATA",
       "COMPUTE_SLUG", "GENERATE_IMAGE", "ASSEMBLE_PAYLOAD", "CONFIRM",
       "PUBLISH", "LEDGER_UPDATE", "SOCIAL_DRAFT", "COOLDOWN" >>

StageNames == { StageOrder[k] : k \in 1..Len(StageOrder) }

\* The place of each step in StageOrder.
StageIndex ==
    [name \in StageNames |->
        CHOOSE k \in 1..Len(StageOrder) : StageOrder[k] = name]

OptionalStages == { "GENERATE_IMAGE", "LEDGER_UPDATE", "SOCIAL_DRAFT" }

\* For each step, the steps before it in StageOrder that are not optional.
MandatoryStagesBefore ==
    [name \in StageNames |->
        { s \in StageNames \ OptionalStages :
            StageIndex[s] < StageIndex[name] }]

StagesRun == { cyc.stages[k] : k \in 1..Len(cyc.stages) }

\* The steps run so far came in the order of StageOrder, none twice (each
\* step comes later in StageOrder than the one run before it).
StagesInOrder ==
    \A a \in 1..(Len(cyc.stages) - 1) :
        StageIndex[cyc.stages[a]] < StageIndex[cyc.stages[a + 1]]

\* Every step of StageOrder before `name` that is not optional was run.
MandatoryBefore(name) == MandatoryStagesBefore[name] \subseteq StagesRun

\* What the steps that ask for a result of an earlier step find: metadata is
\* requested with a body, the item is published with metadata and after an
\* approval, ledger and social draft follow a publication that gave an
\* identifier.
StagePrerequisites ==
    /\ (pc = "generate_metadata" \/ "GENERATE_METADATA" \in StagesRun) =>
          /\ Set(markdown_body)
          /\ MandatoryBefore("GENERATE_METADATA")
    /\ (pc = "publish" \/ "PUBLISH" \in StagesRun) =>
          /\ metadata.kind = "dict" /\ metadata.nonempty
          /\ auto_mode \/ LowerAnswer(confirm) = "y"
          /\ MandatoryBefore("PUBLISH")
    /\ (pc = "generate_linkedin" \/ "LEDGER_UPDATE" \in StagesRun
           \/ "SOCIAL_DRAFT" \in StagesRun) =>
          /\ Truthy(new_item_id)
          /\ "PUBLISH" \in StagesRun

UrlOfSlug == WEBFLOW_PUBLISHED_URL_BASE \o slug

\* The first max_slug_len characters of the slug, or all of it if shorter.
SlugHead ==
    SubSeq(slug, 1, IF Len(slug) < max_slug_len THEN Len(slug)
                    ELSE max_slug_len)

\* C27: within a cycle every use of the slug has the one computed value: the
\* slug field of the payload, the slug column of the row, the file name of
\* the image (the first max_slug_len characters at most, then "-main.png"),
\* the address of the ledger entry and the address given to the social-draft
\* call.
C27_SingleSlug ==
    slug # << >> =>
        /\ blog_post_url = UrlOfSlug
        /\ (provider = "webflow" /\ payload # NoPayload) =>
               payload.fieldData["slug"] = Str(slug)
        /\ cyc.answer = "upserted" =>
               \E k \in 1..Len(sheet) : sheet[k].slug = slug
        /\ cyc.filename # << >> =>
               cyc.filename = SlugHead \o << "-","m","a","i","n",".","p","n","g" >>
        /\ cyc.list_appends = 1 => Last(previous_summaries).url = UrlOfSlug
        /\ cyc.file_appends = 1 =>
               Last(load_summaries(summaries_file)).url = UrlOfSlug
        /\ cyc.draft_url # << >> => cyc.draft_url = UrlOfSlug

C27_Witness ==
    /\ slug = SlugPostAboutX
    /\ provider = "webflow"
    /\ payload # NoPayload
    /\ payload.fieldData["slug"] = Str(slug)
    /\ cyc.filename = slug \o << "-","m","a","i","n",".","p","n","g" >>
    /\ cyc.file_appends = 1
    /\ cyc.list_appends = 1
    /\ cyc.draft_url = UrlOfSlug

\* ------------------------------------------------------------------ C28

\* C28: the slug of every title is collapsed: it never has two hyphens in a
\* row, whatever runs of spaces, hyphens or stripped punctuation the title
\* has.
C28_NoDoubleHyphen ==
    pc \in { "slugified", "reslugified" } =>
        \A k \in 1..(Len(slug) - 1) : ~(slug[k] = "-" /\ slug[k + 1] = "-")

\* ------------------------------------------------------------------ C29

\* The metadata keys that go into the publish data, with the payload field
\* and the row column each one fills.
MetadataFields ==
    { [key |-> "excerpt_page", field |-> "post-excerpt-post-page"],
      [key |-> "excerpt_featured", field |-> "post-excerpt-post-featured"],
      [key |-> "reading_time", field |-> "post-reading-time-minutes"] }

\* The value of a metadata key is absent or null.
Absent(v) == v.tag \in { "missing", "null" }

\* C29: whatever fields of the metadata are missing or null, the data handed
\* to the publish target holds no null: the payload has every metadata field,
\* the row every column, with a placeholder where the metadata gives nothing.
C29_NoNullInPublishData ==
    /\ (provider = "webflow" /\ payload # NoPayload) =>
          /\ \A k \in DOMAIN payload.fieldData :
                payload.fieldData[k].tag # "null"
          /\ "name" \in DOMAIN payload.fieldData
          /\ \A f \in MetadataFields :
                /\ f.field \in DOMAIN payload.fieldData
                /\ Absent(metadata[f.key]) =>
                      payload.fieldData[f.field]
                          \in { Str(<< >>), Num(<< "0" >>) }
    /\ cyc.answer = "upserted" =>
          \A k \in 1..Len(sheet) :
              sheet[k].slug = slug =>
                  /\ sheet[k].name.tag # "null"
                  /\ \A f \in MetadataFields :
                        /\ sheet[k][f.key].tag # "null"
                        /\ Absent(metadata[f.key]) =>
                              sheet[k][f.key]
                                  \in { Str(<< >>), Num(<< "1" >>) }

\* ------------------------------------------------------------------ C30

\* C30: save_summary with an empty summary or an empty URL leaves the file
\* as it is, and whatever calls of save_summary were made, every entry that
\* load_summaries reads from the file has a non-empty summary and a
\* non-empty URL.
C30_NoHalfEntry ==
    pc = "ledger" =>
        /\ \A u \in LedgerUrls \cup { << >> } :
              save_summary(summaries_file, << >>, u, TRUE) = summaries_file
        /\ \A s \in LedgerSummaries :
              save_summary(summaries_file, s, << >>, TRUE) = summaries_file
        /\ \A k \in 1..Len(load_summaries(summaries_file)) :
              /\ load_summaries(summaries_file)[k].summary # << >>
              /\ load_summaries(summaries_file)[k].url # << >>

\* ------------------------------------------------------------------ C31

\* The text call has ended on an answer from which the generator made no
\* result: for the body an answer without candidates or parts, for the
\* metadata an answer without content or whose text is not a JSON document.
AnswerWithoutResult ==
    /\ call.result = "response"
    /\ \/ call.fn = "body" /\ markdown_body = None
       \/ call.fn = "metadata" /\ metadata = NoneDoc

\* C31: an answer of the text service that raises nothing ends the call: no
\* call follows it and no sleep follows it. When the generator makes no
\* result of the answer (no candidates, no parts, text that is not JSON) the
\* cycle is given up right there; the calls are those up to the answer and
\* the sleeps those after the transient failures before it, so an answer to
\* the first attempt means one call and no sleep.
C31_BadAnswerEndsCall ==
    /\ call.fn \in { "body", "metadata", "linkedin" } =>
          \A k \in 1..(Len(call.hist) - 1) : call.hist[k] # "response"
    /\ AnswerWithoutResult =>
          /\ pc = "loop"
          /\ cyc.outcome = IF call.fn = "body" THEN "body_failed"
                            ELSE "metadata_failed"
          /\ Last(call.hist) = "response"
          /\ call.calls = Len(call.hist)
          /\ call.sleeps = TransientsBefore(call.hist, Len(call.hist) - 1)
          /\ call.hist[1] = "response" => call.calls = 1 /\ call.sleeps = 0

C31_Witness ==
    /\ AnswerWithoutResult
    /\ call.fn = "metadata"
    /\ call.hist = << "response" >>
    /\ call.calls = 1
    /\ call.sleeps = 0
    /\ cyc.outcome = "metadata_failed"

\* ------------------------------------------------------------------ C32

\* The bodies and the addresses the generators are called with.
GeneratorBodies == { "", "BODY" }
GeneratorUrls == { << >>, WEBFLOW_PUBLISHED_URL_BASE \o << "a" >> }

\* generate_metadata_json and generate_linkedin_post called on their own,
\* one pass of the retry loop at a time. The arguments of the running or
\* last call are kept in markdown_body and blog_post_url, the result of
\* generate_metadata_json in metadata.
GeneratorInit ==
    /\ Parked
    /\ MigrationAtRest
    /\ pc = "generator"
    /\ metadata = NoneDoc
    /\ slug = << >>
    /\ previous_summaries = << >>
    /\ summaries_file = << >>
    /\ sheet = << >>

\* The call of fn is in its retry loop.
Running(fn) == call.fn = fn /\ call.result = "running"

CallMetadata ==
    /\ pc = "generator"
    /\ ~Running("linkedin")
    /\ \E body \in GeneratorBodies, o \in MetadataOutcomes :
         LET first == ~Running("metadata")
             html_content == IF first THEN body ELSE markdown_body
             st == GuardedStep(MetadataRefuses(html_content), retries,
                               o.remote)
         IN  /\ markdown_body' = html_content
             /\ call' = Observe("metadata", first, o.remote, st)
             /\ retries' = IF st.end = "loop" THEN st.retries ELSE 0
             /\ metadata' = CASE st.end = "loop" -> metadata
                              [] st.end = "break" -> MetadataOf(o)
                              [] OTHER -> NoneDoc
    /\ UNCHANGED << sideVars, argVars, pc, i, runVars, slug, blog_post_url, imageVars,
                    pubVars, attempt, upload, sheet, cyc, run >>

CallLinkedin ==
    /\ pc = "generator"
    /\ ~Running("metadata")
    /\ \E body \in GeneratorBodies, url \in GeneratorUrls,
          o \in LinkedinOutcomes :
         LET first == ~Running("linkedin")
             blog_content_snippet == IF first THEN body ELSE markdown_body
             new_blog_post_url == IF first THEN url ELSE blog_post_url
             st == GuardedStep(LinkedinRefuses(blog_content_snippet,
                                               new_blog_post_url),
                               retries, o.remote)
         IN  /\ markdown_body' = blog_content_snippet
             /\ blog_post_url' = new_blog_post_url
             /\ call' = Observe("linkedin", first, o.remote, st)
             /\ retries' = IF st.end = "loop" THEN st.retries ELSE 0
    /\ UNCHANGED << sideVars, argVars, pc, i, runVars, metadata, slug, imageVars,
                    pubVars, attempt, upload, sheet, cyc, run >>

GeneratorNext == CallMetadata \/ CallLinkedin

GeneratorSpec == GeneratorInit /\ [][GeneratorNext]_vars

\* C32: a social-draft call given an empty snippet or an empty address, and
\* a metadata call given an empty body, end in failure without any call to
\* the text service (and without a sleep).
C32_EmptyInputNoRemoteCall ==
    /\ call.fn = "linkedin" /\ (markdown_body = "" \/ blog_post_url = << >>) =>
          /\ call.result = "none"
          /\ call.calls = 0 /\ call.sleeps = 0 /\ call.hist = << >>
    /\ call.fn = "metadata" /\ markdown_body = "" =>
          /\ call.result = "none" /\ metadata = NoneDoc
          /\ call.calls = 0 /\ call.sleeps = 0 /\ call.hist = << >>

C32_Witness ==
    /\ call.fn = "linkedin"
    /\ markdown_body = "BODY" /\ blog_post_url = << >>
    /\ call.result = "none" /\ call.calls = 0

\* ------------------------------------------------------------------ C33

\* The social-draft step of the cycle ended without a draft, or with a
\* draft that could not be copied to the clipboard.
DraftFailed == cyc.draft \in { "failed", "copy_failed" }

\* C33: the text service is asked for a social draft in a cycle only if the
\* run asked for drafts and the publish call of the cycle returned an
\* identifier; the social-draft step changes neither the success count nor
\* the ledger (file and list), and when it fails the run goes on to the
\* cooldown or the loop header, never to its end by an exception.
C33_DraftStep ==
    /\ cyc'.draft_calls > 0 =>
          /\ generate_linkedin'
          /\ Truthy(new_item_id')
          /\ cyc'.publish_calls = 1
    /\ pc = "generate_linkedin" =>
          /\ UNCHANGED << posts_created_count, summaries_file,
                          previous_summaries >>
          /\ pc' \in { "generate_linkedin", "cooldown", "loop" }
    /\ DraftFailed' /\ ~DraftFailed =>
          /\ pc' = IF i < num_posts - 1 THEN "cooldown" ELSE "loop"
          /\ cyc'.outcome = "published"
    /\ DraftFailed /\ pc = "loop" /\ i + 1 < num_posts =>
          pc' = "generate_body"

C33_DraftGating == [][C33_DraftStep]_vars

C33_Witness ==
    /\ cyc.draft = "copy_failed"
    /\ cyc.draft_calls = 2
    /\ pc = "cooldown"
    /\ posts_created_count = 1
    /\ run.publish_ok = 1

\* ------------------------------------------------------------------ C34

\* The reference documents of _CONTEXT_PDF_FILES in configuration order; the
\* handle genai.upload_file returns for document k is written k.
ContextDocs == [k \in 1..MaxDocs |-> k]

\* What happens to one document: it is uploaded and a handle with a name
\* and a URI comes back; it does not exist locally; upload_file raises
\* FileNotFoundError or another exception; the answer is empty or has no
\* name or no URI.
DocOutcomes == { "uploaded", "missing", "not_found", "error", "no_handle" }

\* UploadOne storing the handle whatever happened to the document.
UploadOne_KeepFailed(acc, filename, outcome) ==
    [files |-> Append(acc.files, filename),
     all_successful |-> acc.all_successful /\ outcome = "uploaded",
     tried |-> Append(acc.tried, filename)]

\* llm_handler.py lines 130-159: one pass of the loop over the documents.
UploadOne(acc, filename, outcome) ==
    [files |-> IF outcome = "uploaded" THEN Append(acc.files, filename)
               ELSE acc.files,
     all_successful |-> acc.all_successful /\ outcome = "uploaded",
     tried |-> Append(acc.tried, filename)]

RECURSIVE UploadLoop(_, _, _)
\* llm_handler.py line 129: `for filename in _CONTEXT_PDF_FILES`, from
\* document k on.
UploadLoop(acc, k, outcomes) ==
    IF k > Len(ContextDocs) THEN acc
    ELSE UploadLoop(UploadOne(acc, ContextDocs[k], outcomes[k]), k + 1,
                    outcomes)

\* llm_handler.py lines 116-169: the list is cleared, every document goes
\* through the loop, all_successful is returned.
upload_context_files(outcomes) ==
    UploadLoop([files |-> << >>, all_successful |-> TRUE, tried |-> << >>],
               1, outcomes)

\* llm_handler.py lines 211-236: the file parts of the request, one for
\* each stored handle, in the order of the list (none when it is empty).
FileParts(uploaded_files_) == uploaded_files_

\* The one-time setup of main() and the body-generation calls of the
\* cycles, followed for the reference documents only.
ContextInit ==
    /\ Parked
    /\ MigrationAtRest
    /\ pc = "start"
    /\ metadata = NoneDoc
    /\ slug = << >>
    /\ previous_summaries = << >>
    /\ summaries_file = << >>
    /\ sheet = << >>

\* main.py lines 154-161: configure_genai, upload_context_files, whose
\* result decides the warning of line 157 only, and load_summaries.
ContextSetup ==
    /\ pc = "start"
    /\ \E configured \in BOOLEAN, outcomes \in [1..MaxDocs -> DocOutcomes] :
         IF ~configured
         THEN /\ pc' = "config_failed"
              /\ UNCHANGED << uploaded_files, ctx, previous_summaries >>
         ELSE LET up == upload_context_files(outcomes)
              IN  /\ uploaded_files' = up.files
                  /\ ctx' = [ctx EXCEPT !.outcomes = outcomes,
                                        !.tried = up.tried,
                                        !.returned = up.all_successful]
                  /\ previous_summaries' = load_summaries(summaries_file)
                  /\ pc' = "context_loop"
    /\ UNCHANGED << migVars, argVars, i, posts_created_count,
                    summaries_file, textVars, imageVars, pubVars, loopVars,
                    upload, sheet, call, cyc, run >>

\* llm_handler.py lines 197-281: one request of generate_html_body, which
\* is made at most MAX_RETRIES times in each of the num_posts cycles.
ContextBody ==
    /\ pc = "context_loop"
    /\ ctx.body_calls < MaxPosts * MAX_RETRIES
    /\ ctx' = [ctx EXCEPT !.body_calls = @ + 1,
                          !.attached = FileParts(uploaded_files)]
    /\ UNCHANGED << uploaded_files, migVars, argVars, pc, i, runVars,
                    textVars, imageVars, pubVars, loopVars, upload, sheet,
                    call, cyc, run >>

ContextNext == ContextSetup \/ ContextBody

ContextSpec == ContextInit /\ [][ContextNext]_vars

\* The documents that were uploaded, in configuration order.
Uploaded(outcomes) ==
    SelectSeq(ContextDocs, LAMBDA k : outcomes[k] = "uploaded")

\* C34: upload_context_files goes through every configured document, also
\* after one has failed; it returns success exactly when every document was
\* uploaded; the stored list is the handles of the uploaded documents in
\* configuration order. Whatever it returned, the run is in the cycle loop
\* afterwards and every body-generation request carries exactly that list.
C34_ContextHandles ==
    ctx.outcomes # << >> =>
        /\ ctx.tried = ContextDocs
        /\ ctx.returned <=> \A k \in 1..MaxDocs : ctx.outcomes[k] = "uploaded"
        /\ uploaded_files = Uploaded(ctx.outcomes)
        /\ pc = "context_loop"
        /\ ctx.body_calls > 0 => ctx.attached = Uploaded(ctx.outcomes)

C34_Witness ==
    /\ ctx.outcomes # << >>
    /\ ctx.outcomes[1] = "error"
    /\ ctx.outcomes[MaxDocs] = "uploaded"
    /\ ~ctx.returned
    /\ uploaded_files = << MaxDocs >>
    /\ ctx.body_calls = 2
    /\ ctx.attached = << MaxDocs >>

\* ------------------------------------------------------------------ C35

\* The step is the ledger update of a published cycle, and writing the
\* ledger file fails in it.
LedgerWriteFails == pc = "finalize" /\ cyc'.write_failed

\* The pair of the excerpt and the address of the cycle.
LedgerPair ==
    [summary |-> metadata.excerpt_page.s,
     url |-> WEBFLOW_PUBLISHED_URL_BASE \o slug]

\* C35: when writing the ledger file fails after a publish call that
\* returned an identifier, nothing is taken back: the identifier and the
\* publish target are left as they are and no further request goes to the
\* target, the success count grows by one, the in-memory list gains the pair
\* of the cycle, and the run goes on (social draft, cooldown or loop header).
\* The list never loses an entry afterwards and each later cycle hands the
\* whole list to body generation.
C35_WriteFailureStep ==
    /\ LedgerWriteFails =>
          /\ Truthy(new_item_id) /\ new_item_id' = new_item_id
          /\ sheet' = sheet
          /\ cyc'.publish_calls = 1 /\ cyc'.item_posts = cyc.item_posts
          /\ cyc'.outcome = "published" /\ cyc'.counted = 1
          /\ posts_created_count' = posts_created_count + 1
          /\ summaries_file' = summaries_file
          /\ previous_summaries' = Append(previous_summaries, LedgerPair)
          /\ pc' = IF generate_linkedin THEN "generate_linkedin"
                   ELSE IF i < num_posts - 1 THEN "cooldown" ELSE "loop"
    /\ pc # "start" =>
          /\ Len(previous_summaries') >= Len(previous_summaries)
          /\ SubSeq(previous_summaries', 1, Len(previous_summaries))
                 = previous_summaries
    /\ pc = "loop" /\ pc' = "generate_body" =>
          cyc'.handed = previous_summaries

C35_WriteFailureKeepsPublish == [][C35_WriteFailureStep]_vars

\* The second cycle starts after a first one whose ledger line could not be
\* written: the pair is in the list handed to body generation, not in the
\* file.
C35_Witness ==
    /\ pc = "generate_body" /\ i = 1
    /\ run.write_failures = 1
    /\ posts_created_count = 1
    /\ Len(cyc.handed) = run.loaded + 1
    /\ FileEntriesAdded = 0

\* ------------------------------------------------------------------ C36

\* C36: the transfer request is made only from the second step of the
\* upload, which is entered only on a registration answer with an upload
\* location and upload details; a registration that fails ends the upload
\* with (None, None) and without a transfer, the cycle going on to the
\* confirmation; the item-creation request is made only in the publish step,
\* after the upload of the cycle has ended.
C36_RegisterThenTransferStep ==
    /\ upload'.sent /\ ~upload.sent => pc = "upload_transfer"
    /\ pc = "upload_register" =>
          /\ pc' \in { "upload_transfer", "confirm" }
          /\ pc' = "confirm" =>
                /\ ~upload'.sent
                /\ image_file_id' = None /\ hosted_image_url' = None
    /\ cyc'.item_posts > cyc.item_posts =>
          /\ pc = "publish"
          /\ cyc.item_posts = 0

C36_RegisterThenTransfer == [][C36_RegisterThenTransferStep]_vars

\* ------------------------------------------------------------------ C37

\* C37: the hash given to the registration request is the hash of the bytes
\* given to the transfer request, whether these are the compressed image or,
\* compression having failed, the image as it was generated.
C37_HashOfTransferredBytes ==
    /\ upload.file_hash # None =>
          upload.file_hash \in { Md5("PNG"), Md5("IMAGE") }
    /\ upload.file_bytes # None =>
          /\ upload.file_bytes \in { "PNG", "IMAGE" }
          /\ upload.file_hash = Md5(upload.file_bytes)
    /\ pc = "upload_transfer" =>
          upload.file_hash = Md5(compressed_image_bytes)

\* Compression failed, and the image as generated was registered and sent.
C37_Witness ==
    /\ upload.sent
    /\ original_image_bytes = "IMAGE"
    /\ upload.file_bytes = original_image_bytes
    /\ upload.file_hash = Md5("IMAGE")

\* ------------------------------------------------------------------ C38

\* The cycles so far whose publish call returned an identifier and which
\* have gone through the count of main.py line 465, the statement after the
\* publish call.
PublishedAndCounted ==
    run.publish_ok - (IF pc = "finalize" /\ Truthy(new_item_id) THEN 1 ELSE 0)

\* C38: the success count is 0 at the start and is, after every step, the
\* number of cycles whose publish call returned an identifier; a step leaves
\* it as it is or adds one, at most one in a cycle; it is never more than
\* the cycles started; the only step that changes it is the one after a
\* publish call that returned an identifier, and there it grows by one
\* whatever happened to the image, to the ledger file or to the social
\* draft.
C38_SuccessCountStep ==
    /\ pc = "start" => posts_created_count = 0
    /\ posts_created_count' = PublishedAndCounted'
    /\ posts_created_count' \in
          { posts_created_count, posts_created_count + 1 }
    /\ cyc'.counted <= 1
    /\ posts_created_count' <= i' + 1
    /\ posts_created_count' # posts_created_count <=>
          pc = "finalize" /\ Truthy(new_item_id)

C38_SuccessCount == [][C38_SuccessCountStep]_vars

\* Two cycles: the first published, its ledger line could not be written;
\* the second made its publish call and got no identifier.
C38_Witness ==
    /\ pc = "loop" /\ i = 1
    /\ posts_created_count = 1
    /\ run.publish_calls = 2 /\ run.publish_ok = 1
    /\ run.write_failures = 1
    /\ cyc.outcome = "publish_failed"

\* ------------------------------------------------------------------ C39

\* Number of items the collection holds at most.
MaxItems == 2

\* The items of the collection: a slug, a post-main-image field that is
\* absent, an object with a url, or an object with neither url nor fileId,
\* and isDraft absent or true. The other fields are the same in all: no
\* name, the body "BODY", no excerpts, no reading time, no createdOn.
MigrationItems ==
    [slug : { << "a" >>, << "b" >> }, main_image : { "none", "url", "no_url" },
     isDraft : { Missing, JsonTrue }]

\* The literal "Untitled" of migrate_webflow_to_sheets.py line 72.
UNTITLED == << "U","n","t","i","t","l","e","d" >>

\* s3_client.py lines 13-22: the address upload_png returns for the object
\* it has put, the n-th of the bucket (the key is a fresh uuid).
ObjectUrl(n) ==
    << "s","3","/" >> \o << CASE n = 1 -> "1" [] n = 2 -> "2" [] OTHER -> "n" >>

\* migrate_webflow_to_sheets.py lines 53-65 with s3_client.upload_png:
\* the address for the image of an item and the bucket afterwards. got: the
\* download of the image succeeded; put: put_object succeeded.
download_and_upload(img_info, bucket_, got, put) ==
    IF img_info = "url" /\ got /\ put
    THEN [url |-> ObjectUrl(Len(bucket_) + 1),
          bucket |-> Append(bucket_, "PNG")]
    ELSE [url |-> << >>, bucket |-> bucket_]

\* migrate_webflow_to_sheets.py lines 71-94: the row of an item.
MigrationRow(it, img_url) ==
    [name |-> Str(UNTITLED),
     slug |-> it.slug,
     excerpt_page |-> Str(<< >>),
     excerpt_featured |-> Str(<< >>),
     reading_time |-> Num(<< "1" >>),
     body_html |-> "BODY",
     image_url |-> img_url,
     draft |-> Upper(PyStr(Get(it.isDraft, JsonFalse))),
     created_at |-> UtcNow]

\* The migration script after its arguments are parsed (lines 23-26), with
\* a worksheet that is empty or has the row of an earlier migration.
MigrateInit ==
    /\ Parked
    /\ pc = "migrate_fetch"
    /\ metadata = NoneDoc
    /\ slug = << >>
    /\ previous_summaries = << >>
    /\ summaries_file = << >>
    /\ sheet \in { << >>,
                   << MigrationRow([slug |-> << "a" >>, main_image |-> "none",
                                    isDraft |-> Missing], << >>) >> }
    /\ dry_run \in BOOLEAN
    /\ all_items = << >>
    /\ item_index = 1
    /\ bucket = << >>
    /\ MISSING = << >>

\* Lines 28-48: the items are fetched, or a request raises and the script
\* ends.
MigrateFetch ==
    /\ pc = "migrate_fetch"
    /\ \/ /\ \E n \in 0..MaxItems : all_items' \in [1..n -> MigrationItems]
          /\ pc' = "migrate_items"
       \/ /\ pc' = "crashed"
          /\ all_items' = all_items
    /\ UNCHANGED << ctxVars, dry_run, item_index, bucket, MISSING, argVars, i,
                    runVars, textVars, imageVars, pubVars, loopVars, upload,
                    sheet, call, cyc, run >>

\* Lines 68-106: one pass of `for it in all_items`. The image is fetched
\* and stored (lines 82-84) before the test of args.dry_run (line 99).
MigrateItem ==
    /\ pc = "migrate_items"
    /\ item_index <= Len(all_items)
    /\ \E got \in BOOLEAN, put \in BOOLEAN, upserted \in BOOLEAN :
         LET it == all_items[item_index]
             img == IF it.main_image = "none"
                    THEN [url |-> << >>, bucket |-> bucket]
                    ELSE download_and_upload(it.main_image, bucket, got, put)
             row == MigrationRow(it, img.url)
         IN  /\ it.main_image # "url" => got /\ put
             /\ ~got => put
             /\ dry_run => upserted
             /\ bucket' = img.bucket
             /\ sheet' = IF ~dry_run /\ upserted THEN upsert(sheet, row)
                         ELSE sheet
             /\ MISSING' = IF ~dry_run /\ ~upserted
                           THEN Append(MISSING, it.slug) ELSE MISSING
    /\ item_index' = item_index + 1
    /\ UNCHANGED << ctxVars, dry_run, all_items, argVars, pc, i, runVars,
                    textVars, imageVars, pubVars, loopVars, upload, call,
                    cyc, run >>

\* Lines 108-114: the report after the loop.
MigrateReport ==
    /\ pc = "migrate_items"
    /\ item_index > Len(all_items)
    /\ pc' = "migrate_done"
    /\ UNCHANGED << sideVars, argVars, i, runVars, textVars, imageVars,
                    pubVars, loopVars, upload, sheet, call, cyc, run >>

MigrateNext == MigrateFetch \/ MigrateItem \/ MigrateReport

MigrateSpec == MigrateInit /\ [][MigrateNext]_vars

\* C39: with --dry-run no step of the migration writes to the worksheet or
\* to the storage bucket.
C39_DryRunWritesNothing ==
    [][dry_run => sheet' = sheet /\ bucket' = bucket]_vars

====
